---- MODULE Spec2Model ----
(***************************************************************************)
(* Session-key lifecycle of @arbitrum/agentic-wallets: SessionManager on   *)
(* top of FileStorage and the AES-256-GCM key envelope.                    *)
(*                                                                         *)
(* Strings the code inspects character by character (addresses, labels,    *)
(* file names, hex keys) are sequences of one-character strings.  Random   *)
(* values (randomUUID, generatePrivateKey, randomBytes) are named by the   *)
(* number of the createSessionKey or encryptKey call that draws them:      *)
(* every draw is a value never drawn before.  Cryptography is symbolic: a  *)
(* derived key is the tuple of its inputs, a ciphertext the tuple of       *)
(* plaintext bytes, key and IV, and the tag of a ciphertext its copy.      *)
(*                                                                         *)
(* Spec explores the session operations, SpecShape the same operations     *)
(* under wrongly shaped permission objects, SpecCipher direct calls of     *)
(* encryptKey and decryptKey.                                              *)
(***************************************************************************)
EXTENDS Integers, Sequences, FiniteSets

\* ------------------------------------------------------------------ bounds
MaxSessions == 2     \* number of randomUUID() draws explored
MaxTime == 2         \* the clock runs over 0..MaxTime (epoch seconds)
MaxProcs == 2        \* number of processes sharing the store
MaxSeals == 2        \* number of direct encryptKey calls that draw a salt and an IV

\* --------------------------------------------------------------- constants
SESSION_COLLECTION == "sessions"
JSON_EXT == ".json"
MinPasswordLength == 8
SCRYPT_N == 262144
SCRYPT_R == 8
SCRYPT_P == 1
KEY_LENGTH == 32
PrivateKeyChars == 66

VARIABLES
  now,        \* Math.floor(Date.now() / 1000)
  dirs,       \* collection directories that exist under the base directory
  files,      \* path -> JSON text, the files under the base directory
  uuidCount,  \* createSessionKey calls that have drawn their random values
  ret,        \* the call that has just returned and its outcome; op "none" between calls
  createdOk,  \* <<walletAddress, id>> of the createSessionKey calls that returned
  revokedOk,  \* <<walletAddress, id>> of the revokeSession calls that returned true
  sealed,     \* the encryptKey calls, direct or through KeyManager, that returned, in call order
  saved,      \* <<collection, id>> -> the data of the last FileStorage.save that
              \* returned, for the keys no FileStorage.delete has returned true for since
  provider,   \* AgenticWallet.provider: << >> for null, else <<provider object>>
  walletConfig, \* AgenticWallet.config: << >> for null, else <<WalletConfig>>
  initializedOk, \* whether an AgenticWallet.initialize call has returned normally
  inflight,   \* process -> the call it is in, between its load or its key
              \* generation and its save, with the record it holds in memory
  listed      \* <<id, phase>> of the entries a caller of listSessions has seen

facadeVars == <<provider, walletConfig, initializedOk>>

vars ==
  <<now, dirs, files, uuidCount, ret, createdOk, revokedOk, sealed, saved,
    provider, walletConfig, initializedOk, inflight, listed>>

\* --------------------------------------------------------------------- hex
HexDigits ==
  <<"0", "1", "2", "3", "4", "5", "6", "7", "8", "9", "a", "b", "c", "d", "e", "f">>

ToLowerChar(c) ==
  CASE c = "A" -> "a" [] c = "B" -> "b" [] c = "C" -> "c"
    [] c = "D" -> "d" [] c = "E" -> "e" [] c = "F" -> "f"
    [] OTHER -> c

ToLowerCase(s) == [i \in DOMAIN s |-> ToLowerChar(s[i])]

IsHexChar(c) == \E i \in DOMAIN HexDigits : HexDigits[i] = ToLowerChar(c)
HexVal(c) == (CHOOSE i \in DOMAIN HexDigits : HexDigits[i] = ToLowerChar(c)) - 1

\* privateKey.slice(2)
Slice2(s) == SubSeq(s, 3, Len(s))

\* Buffer.from(text, 'hex'): one byte per pair of hex digits of either case;
\* decoding stops at the first pair that is not hex, a last odd digit is dropped.
RECURSIVE FromHex(_)
FromHex(h) ==
  IF Len(h) < 2 \/ ~IsHexChar(h[1]) \/ ~IsHexChar(h[2]) THEN << >>
  ELSE <<16 * HexVal(h[1]) + HexVal(h[2])>> \o FromHex(SubSeq(h, 3, Len(h)))

\* Mutant: a byte below 16 is written without its leading zero.
RECURSIVE ToHex_NoPad(_)
ToHex_NoPad(bytes) ==
  IF bytes = << >> THEN << >>
  ELSE (IF Head(bytes) < 16
          THEN <<HexDigits[Head(bytes) + 1]>>
          ELSE <<HexDigits[(Head(bytes) \div 16) + 1], HexDigits[(Head(bytes) % 16) + 1]>>)
       \o ToHex_NoPad(Tail(bytes))

\* buffer.toString('hex'): two lower-case digits per byte.
ToHex(bytes) ==
  [i \in 1..(2 * Len(bytes)) |->
     IF i % 2 = 1 THEN HexDigits[(bytes[(i + 1) \div 2] \div 16) + 1]
     ELSE HexDigits[(bytes[i \div 2] % 16) + 1]]

\* ------------------------------------------------------------------ inputs
WalletA == <<"0", "x", "A", "b">>
WalletB == <<"0", "x", "c", "D">>
Wallets == {WalletA, WalletB}

LabelEmpty == << >>
LabelBlank == <<" ">>
LabelBot == <<"b", "o", "t">>

PasswordShort == "short"
PasswordGood == "password1"
PasswordOther == "password2"
Passwords == {PasswordShort, PasswordGood, PasswordOther}

CipherPasswords == {"", PasswordShort, PasswordGood, PasswordOther}

\* Private keys passed to encryptKey: the 32-byte key of the cipher tests,
\* the same key spelled with an upper-case digit, a one-byte key and a key
\* with an odd digit.
TestKeyDigits ==
  <<"a", "c", "0", "9", "7", "4", "b", "e", "c", "3", "9", "a", "1", "7", "e", "3",
    "6", "b", "a", "4", "a", "6", "b", "4", "d", "2", "3", "8", "f", "f", "9", "4",
    "4", "b", "a", "c", "b", "4", "7", "8", "c", "b", "e", "d", "5", "e", "f", "c",
    "a", "e", "7", "8", "4", "d", "7", "b", "f", "4", "f", "2", "f", "f", "8", "0">>
TestKey == <<"0", "x">> \o TestKeyDigits
TestKeyUpper == [TestKey EXCEPT ![3] = "A"]
ShortKey == <<"0", "x", "a", "c">>
PrivateKeyInputs == {TestKey, TestKeyUpper, ShortKey, <<"0", "x", "a">>}

\* Private keys and passwords passed to KeyManager: also a key of 66
\* characters one of which is not a hex digit, the 64 digits without the 0x
\* prefix, and passwords of seven and of eight characters.
NonHexKey == [TestKey EXCEPT ![3] = "g"]
KeyManagerPasswords == CipherPasswords \cup {"1234567", "12345678"}

\* A JavaScript value of a permission field: undefined, a bigint, a number
\* or an array of strings.
Undefined == [t |-> "undefined", v |-> 0]
BigIntVal(n) == [t |-> "bigint", v |-> n]
NumberVal(n) == [t |-> "number", v |-> n]
ArrayVal(items) == [t |-> "array", v |-> items]

\* A JavaScript number is a natural (seconds, counts) or NaN; JSON.stringify
\* writes NaN as null.  NaN and null are encoded by two negative integers.
NaN == -1
Null == -2

\* a <= b and a < b of JavaScript: false when an operand is NaN, null being
\* converted to 0.
Lte(a, b) ==
  /\ a # NaN
  /\ b # NaN
  /\ (IF a = Null THEN 0 ELSE a) <= (IF b = Null THEN 0 ELSE b)

Lt(a, b) ==
  /\ a # NaN
  /\ b # NaN
  /\ (IF a = Null THEN 0 ELSE a) < (IF b = Null THEN 0 ELSE b)

PermsNone == [f \in {} |-> Undefined]
PermsZeroCap == [f \in {"maxValuePerTransaction"} |-> BigIntVal(0)]

\* Permission objects of the declared field types but of a wrong shape: a
\* target that is no address (the CLI passes --targets split on commas) and
\* a negative operation count.
ShapeInputs ==
  {[f \in {"allowedTargets"} |-> ArrayVal(<<<<"n", "o", "p", "e">>>>)],
   [f \in {"maxTransactions"} |-> NumberVal(-1)]}

\* Collections, ids and data passed to FileStorage directly.  An id is a
\* string without path separators; "a.jsonx" and "ax.json" are the tokens
\* <<"a", ".json", "x">> and <<"a", "x", ".json">>.
StorageCollections == {<<"collection">>, <<"nonexistent">>}
StorageIds == {<<"item1">>, <<"a", JSON_EXT, "x">>, <<"a", "x", JSON_EXT>>}
DataA == [f \in {"a"} |-> NumberVal(1)]
StorageData ==
  {DataA,
   [f \in {"b", "c"} |-> IF f = "b" THEN NumberVal(2) ELSE Undefined],
   [f \in {"a"} |-> BigIntVal(1)]}

\* <<validAfter, validUntil>> pairs passed to createSessionKey.
WindowFirst == <<0, 1>>
WindowLong == <<0, 2>>
WindowInputs == {<<1, 1>>, <<2, 1>>, WindowFirst, WindowLong, <<1, 2>>}

Config(label, window, permissions) ==
  [label |-> label, validAfter |-> window[1], validUntil |-> window[2],
   permissions |-> permissions]

\* <<config, password>> pairs passed to createSessionKey: under empty
\* permissions, every window and password with a good label and with the
\* missing labels an empty, a short and a long window; and the permission
\* objects under a good label and password.
CreateInputs ==
  {<<Config(LabelBot, window, PermsNone), password>> :
     window \in WindowInputs, password \in {PasswordShort, PasswordGood}}
  \cup
  {<<Config(label, window, PermsNone), password>> :
     label \in {LabelEmpty, LabelBlank}, window \in {<<1, 1>>, WindowFirst, WindowLong},
     password \in {PasswordShort, PasswordGood}}
  \cup
  {<<Config(LabelBot, window, permissions), PasswordGood>> :
     window \in {WindowFirst, WindowLong},
     permissions \in
       {PermsZeroCap, [f \in {"allowedTargets", "maxValuePerTransaction"} |-> Undefined]}}

\* <<config, password>> pairs with a wrongly shaped permission object, or
\* with the validUntil the CLI computes from a duration that is no number:
\* now + parseInt(duration, 10) = NaN.
CreateShapeInputs ==
  {<<Config(LabelBot, window, permissions), PasswordGood>> :
     window \in {WindowFirst, WindowLong}, permissions \in ShapeInputs}
  \cup
  {<<Config(LabelBot, <<validAfter, NaN>>, PermsNone), PasswordGood>> :
     validAfter \in 0..MaxTime}

\* The values the n-th drawing createSessionKey call gets from randomUUID()
\* (a one-token string), generatePrivateKey() and randomBytes().
UuidPool == <<"uuid-1", "uuid-2", "uuid-3", "uuid-4">>
\* Mutant: randomUUID() returns the same id on every draw.
UUID_Repeated(n) == <<UuidPool[1]>>

UUID(n) == <<UuidPool[n]>>
PrivateKey(n) ==
  [i \in 1..PrivateKeyChars |->
     CASE i = 1 -> "0" [] i = 2 -> "x" [] i = PrivateKeyChars -> HexDigits[n + 1]
       [] OTHER -> "0"]
\* Mutant: the salt is drawn once and reused by every call.
Salt_Reused(n) == <<"salt", 1>>

Salt(n) == <<"salt", n>>
Iv(n) == <<"iv", n>>
SessionIds == {UUID(n) : n \in 1..MaxSessions}

\* ------------------------------------------------------------------ errors
NoError == [name |-> "", code |-> "", text |-> "", arg |-> << >>]

AgenticWalletError(text, code) ==
  [name |-> "AgenticWalletError", code |-> code, text |-> text, arg |-> << >>]

KeyManagementError(text) ==
  [name |-> "KeyManagementError", code |-> "KEY_MANAGEMENT_ERROR",
   text |-> text, arg |-> << >>]

SessionKeyError(text, arg) ==
  [name |-> "SessionKeyError", code |-> "SESSION_KEY_ERROR",
   text |-> text, arg |-> arg]

LoadFailed(id) ==
  [name |-> "KeyManagementError", code |-> "KEY_MANAGEMENT_ERROR",
   text |-> "Failed to load ", arg |-> id]

\* The error a failing node:fs call throws, named by the call.
FsError(call) == [name |-> "Error", code |-> "EIO", text |-> call, arg |-> << >>]

SaveFailed(id) ==
  [name |-> "KeyManagementError", code |-> "KEY_MANAGEMENT_ERROR",
   text |-> "Failed to save ", arg |-> id]

\* Mutant: an absent session is reported as a revoked one.
SessionNotFound_AsRevoked(sessionId) ==
  SessionKeyError("Session key has been revoked", sessionId)

SessionNotFound(sessionId) == SessionKeyError("Session key not found: ", sessionId)
SessionRevoked == SessionKeyError("Session key has been revoked", << >>)
\* Mutant: the expired error reuses the revoked message.
SessionExpired_AsRevoked == SessionKeyError("Session key has been revoked", << >>)


SessionExpired == SessionKeyError("Session key has expired", << >>)

\* --------------------------------------------------------- string helpers
IsSpace(c) == c = " "

RECURSIVE TrimStart(_)
TrimStart(s) ==
  IF s # << >> /\ IsSpace(Head(s)) THEN TrimStart(Tail(s)) ELSE s

RECURSIVE TrimEnd(_)
TrimEnd(s) ==
  IF s # << >> /\ IsSpace(s[Len(s)]) THEN TrimEnd(SubSeq(s, 1, Len(s) - 1)) ELSE s

\* Mutant: the window check admits validUntil = validAfter.
validateSessionTimes_EmptyWindow(validAfter, validUntil, t) ==
  IF validUntil < validAfter
    THEN AgenticWalletError("Session validUntil must be after validAfter.",
                            "INVALID_SESSION_TIMES")
  ELSE IF validUntil <= t
    THEN AgenticWalletError("Session validUntil must be in the future.",
                            "INVALID_SESSION_TIMES")
  ELSE NoError

\* Mutant: the expiry check admits validUntil = now.
validateSessionTimes_ExpiresNow(validAfter, validUntil, t) ==
  IF validUntil <= validAfter
    THEN AgenticWalletError("Session validUntil must be after validAfter.",
                            "INVALID_SESSION_TIMES")
  ELSE IF validUntil < t
    THEN AgenticWalletError("Session validUntil must be in the future.",
                            "INVALID_SESSION_TIMES")
  ELSE NoError

\* ---------------------------------------------------------------- validation
validateSessionTimes(validAfter, validUntil, t) ==
  IF Lte(validUntil, validAfter)
    THEN AgenticWalletError("Session validUntil must be after validAfter.",
                            "INVALID_SESSION_TIMES")
  ELSE IF Lte(validUntil, t)
    THEN AgenticWalletError("Session validUntil must be in the future.",
                            "INVALID_SESSION_TIMES")
  ELSE NoError

\* Mutant: the label is not trimmed before its length is checked.
LabelMissing_NoTrim(label) == label = << >> \/ Len(label) = 0

LabelMissing(label) == label = << >> \/ Len(TrimEnd(TrimStart(label))) = 0

\* viem isHex(value) in its default strict mode: /^0x[0-9a-fA-F]*$/.
isHex(value) ==
  /\ Len(value) >= 2
  /\ value[1] = "0"
  /\ value[2] = "x"
  /\ \A i \in 3..Len(value) : IsHexChar(value[i])

\* Mutant: only the length of the key is tested.
validatePrivateKey_LengthOnly(key) ==
  IF Len(key) # PrivateKeyChars
    THEN AgenticWalletError(
           "Invalid private key format. Must be a 32-byte hex string with 0x prefix.",
           "INVALID_PRIVATE_KEY")
    ELSE NoError

\* validatePrivateKey and validatePassword: the error thrown, or NoError.
validatePrivateKey(key) ==
  IF ~isHex(key) \/ Len(key) # PrivateKeyChars
    THEN AgenticWalletError(
           "Invalid private key format. Must be a 32-byte hex string with 0x prefix.",
           "INVALID_PRIVATE_KEY")
    ELSE NoError

validatePassword(password) ==
  IF password = "" \/ Len(password) < MinPasswordLength
    THEN AgenticWalletError("Password must be at least 8 characters long.",
                            "INVALID_PASSWORD")
    ELSE NoError

\* -------------------------------------------------------------------- cipher
privateKeyToAccount(privateKey) ==
  [address |-> <<"addressOf", FromHex(Slice2(privateKey))>>]

\* Mutant: encryptKey accepts a password of any length.
PasswordTooShort_Never(password) == FALSE

PasswordTooShort(password) == password = "" \/ Len(password) < MinPasswordLength

\* Mutant: the key is derived from the salt alone.
deriveKey_NoPassword(password, salt, params) ==
  [password |-> "", salt |-> salt, n |-> params.n, r |-> params.r,
   p |-> params.p, dkLen |-> params.dkLen]

deriveKey(password, salt, params) ==
  [password |-> password, salt |-> salt, n |-> params.n, r |-> params.r,
   p |-> params.p, dkLen |-> params.dkLen]

\* encryptKey after its password check: salt and iv are the two draws.
encryptKey(privateKey, password, salt, iv) ==
  LET params == [n |-> SCRYPT_N, r |-> SCRYPT_R, p |-> SCRYPT_P, dkLen |-> KEY_LENGTH]
      key == deriveKey(password, salt, params)
      keyBytes == FromHex(Slice2(privateKey))
  IN  [ciphertext |-> [bytes |-> keyBytes, key |-> key, iv |-> iv],
       iv |-> iv,
       salt |-> salt,
       authTag |-> [bytes |-> keyBytes, key |-> key, iv |-> iv],
       kdf |-> "scrypt",
       kdfParams |-> params]

\* Mutant: a failed tag check under the right key gets a message of its own.
decryptKey_Oracle(encryptedData, password) ==
  LET key == deriveKey(password, encryptedData.salt, encryptedData.kdfParams)
      verified ==
        /\ encryptedData.ciphertext.key = key
        /\ encryptedData.ciphertext.iv = encryptedData.iv
        /\ encryptedData.authTag = encryptedData.ciphertext
  IN  IF verified
        THEN [error |-> NoError,
              value |-> <<"0", "x">> \o ToHex(encryptedData.ciphertext.bytes)]
      ELSE IF encryptedData.ciphertext.key = key
        THEN [error |-> KeyManagementError("Failed to decrypt private key. Corrupted data"),
              value |-> << >>]
      ELSE [error |-> KeyManagementError("Failed to decrypt private key. Wrong password?"),
            value |-> << >>]

\* Mutant: the plaintext is returned without its 0x prefix.
decryptKey_NoPrefix(encryptedData, password) ==
  LET key == deriveKey(password, encryptedData.salt, encryptedData.kdfParams)
      verified ==
        /\ encryptedData.ciphertext.key = key
        /\ encryptedData.ciphertext.iv = encryptedData.iv
        /\ encryptedData.authTag = encryptedData.ciphertext
  IN  IF verified
        THEN [error |-> NoError, value |-> ToHex(encryptedData.ciphertext.bytes)]
      ELSE [error |-> KeyManagementError("Failed to decrypt private key. Wrong password?"),
            value |-> << >>]

\* decryptKey: the GCM tag verifies only under the key and IV of encryption.
decryptKey(encryptedData, password) ==
  LET key == deriveKey(password, encryptedData.salt, encryptedData.kdfParams)
      verified ==
        /\ encryptedData.ciphertext.key = key
        /\ encryptedData.ciphertext.iv = encryptedData.iv
        /\ encryptedData.authTag = encryptedData.ciphertext
  IN  IF verified
        THEN [error |-> NoError,
              value |-> <<"0", "x">> \o ToHex(encryptedData.ciphertext.bytes)]
        ELSE [error |-> KeyManagementError("Failed to decrypt private key. Wrong password?"),
              value |-> << >>]

\* ---------------------------------------------------------------------- JSON
\* JSON.stringify of an object drops the properties whose value is undefined
\* and throws a TypeError on a bigint.
JsonThrows(object) == \E f \in DOMAIN object : object[f].t = "bigint"

JsonObject(object) ==
  LET kept == {f \in DOMAIN object : object[f].t # "undefined"}
  IN  [f \in kept |-> object[f]]

\* JSON text of a SessionKeyData and its parse.
JsonStringify(data) ==
  [json |-> [info |-> [data.info EXCEPT
                         !.permissions = JsonObject(@),
                         !.validAfter = IF @ = NaN THEN Null ELSE @,
                         !.validUntil = IF @ = NaN THEN Null ELSE @],
             encryptedPrivateKey |-> data.encryptedPrivateKey]]

JsonParse(text) == text.json

\* JSON text of an envelope (strings and numbers only) and its parse.
JsonStringifyEnvelope(envelope) == [json |-> envelope]
JsonParseEnvelope(text) == text.json

\* Mutant: the collection key leaves out the wallet address.
Collection_Shared(walletAddress) == <<SESSION_COLLECTION, << >>>>

\* Mutant: the collection is keyed by the address as the caller spelled it.
Collection_AsSpelled(walletAddress) == <<SESSION_COLLECTION, walletAddress>>

\* --------------------------------------------------------------- FileStorage
Collection(walletAddress) == <<SESSION_COLLECTION, ToLowerCase(walletAddress)>>

\* path.join of a directory and the tokens of a file name: "/" ends a
\* segment, a ".." segment removes the directory before it, an empty segment
\* is skipped; the last segment is the name of the file.
RECURSIVE Join(_, _)
Join(dir, name) ==
  IF \A i \in DOMAIN name : name[i] # "/" THEN <<dir, name>>
  ELSE LET k == CHOOSE i \in DOMAIN name :
                  name[i] = "/" /\ \A j \in 1..(i - 1) : name[j] # "/"
           segment == SubSeq(name, 1, k - 1)
           rest == SubSeq(name, k + 1, Len(name))
       IN  IF segment = <<"..">> THEN Join(SubSeq(dir, 1, Len(dir) - 1), rest)
           ELSE IF segment = << >> THEN Join(dir, rest)
           ELSE Join(Append(dir, segment), rest)

\* join(this.dir, collection, `${id}.json`), relative to the base directory.
FilePath(collection, id) == Join(collection, id \o <<JSON_EXT>>)

EndsWithJson(f) == f # << >> /\ f[Len(f)] = JSON_EXT

\* f.replace('.json', ''): removes the first occurrence.
RECURSIVE ReplaceJson(_)
ReplaceJson(f) ==
  IF f = << >> THEN << >>
  ELSE IF Head(f) = JSON_EXT THEN Tail(f)
  ELSE <<Head(f)>> \o ReplaceJson(Tail(f))

\* The files and directories under the base directory.
Store == [files |-> files, dirs |-> dirs]

existsSync(store, path) == path \in DOMAIN store.files

readdirSync(store, collection) ==
  {p[2] : p \in {q \in DOMAIN store.files : q[1] = collection}}

\* FileStorage.load on a given store: <<record>>, or << >> for null.
LoadFrom(store, collection, id) ==
  IF existsSync(store, FilePath(collection, id))
    THEN <<JsonParse(store.files[FilePath(collection, id)])>>
    ELSE << >>

\* FileStorage.list on a given store: the ids of a collection, as a set.
ListFrom(store, collection) ==
  IF collection \notin store.dirs THEN {}
  ELSE {ReplaceJson(f) : f \in {g \in readdirSync(store, collection) : EndsWithJson(g)}}

Load(collection, id) == LoadFrom(Store, collection, id)
List(collection) == ListFrom(Store, collection)

\* Mutant: an existing file is not overwritten.
Written_NoOverwrite(path, text) ==
  [p \in DOMAIN files \cup {path} |-> IF p \in DOMAIN files THEN files[p] ELSE text]

\* writeFileSync in FileStorage.save.
Written(path, text) ==
  [p \in DOMAIN files \cup {path} |-> IF p = path THEN text ELSE files[p]]

\* ------------------------------------------------------------ SessionManager
\* Mutant: a session is not active in the second its window opens.
NewSessionInfo_LateStart(sessionId, sessionPrivateKey, config, t) ==
  [id |-> sessionId,
   sessionKeyAddress |-> privateKeyToAccount(sessionPrivateKey).address,
   label |-> config.label,
   validAfter |-> config.validAfter,
   validUntil |-> config.validUntil,
   permissions |-> config.permissions,
   isActive |-> (config.validAfter < t /\ config.validUntil > t),
   isRevoked |-> FALSE,
   createdAt |-> t]

\* The descriptor built by createSessionKey.
NewSessionInfo(sessionId, sessionPrivateKey, config, t) ==
  [id |-> sessionId,
   sessionKeyAddress |-> privateKeyToAccount(sessionPrivateKey).address,
   label |-> config.label,
   validAfter |-> config.validAfter,
   validUntil |-> config.validUntil,
   permissions |-> config.permissions,
   isActive |-> (Lte(config.validAfter, t) /\ Lt(t, config.validUntil)),
   isRevoked |-> FALSE,
   createdAt |-> t]

\* Mutant: the persisted flag is returned instead of being recomputed.
IsActiveAt_Persisted(info, t) == info.isActive

\* Mutant: a session is inactive at validUntil itself only.
IsActiveAt_Renewed(info, t) ==
  ~info.isRevoked /\ Lte(info.validAfter, t) /\ info.validUntil # t

\* The activity listSessions reports for a loaded descriptor.
IsActiveAt(info, t) ==
  ~info.isRevoked /\ Lte(info.validAfter, t) /\ Lt(t, info.validUntil)

ListEntry(data, t) == [data.info EXCEPT !.isActive = IsActiveAt(data.info, t)]

\* Mutant: the expiry check comes before the revoked check.
KeyAccessError_ExpiryFirst(loaded, sessionId, t) ==
  IF loaded = << >> THEN SessionNotFound(sessionId)
  ELSE IF loaded[1].info.validUntil <= t THEN SessionExpired
  ELSE IF loaded[1].info.isRevoked THEN SessionRevoked
  ELSE NoError

\* Mutant: the revoked check is missing.
KeyAccessError_NoRevokedCheck(loaded, sessionId, t) ==
  IF loaded = << >> THEN SessionNotFound(sessionId)
  ELSE IF loaded[1].info.validUntil <= t THEN SessionExpired
  ELSE NoError

\* Mutant: a session is still usable at validUntil itself.
KeyAccessError_LateExpiry(loaded, sessionId, t) ==
  IF loaded = << >> THEN SessionNotFound(sessionId)
  ELSE IF loaded[1].info.isRevoked THEN SessionRevoked
  ELSE IF loaded[1].info.validUntil < t THEN SessionExpired
  ELSE NoError

\* The checks of getSessionPrivateKey before decryption, in source order.
KeyAccessError(loaded, sessionId, t) ==
  IF loaded = << >> THEN SessionNotFound(sessionId)
  ELSE IF loaded[1].info.isRevoked THEN SessionRevoked
  ELSE IF Lte(loaded[1].info.validUntil, t) THEN SessionExpired
  ELSE NoError

\* Mutant: revocation flips the revoked flag.
Revoke_Toggle(session) ==
  [session EXCEPT !.info.isRevoked = ~@, !.info.isActive = FALSE]

\* Mutant: revocation clears the activity flag only.
Revoke_ActivityOnly(session) == [session EXCEPT !.info.isActive = FALSE]

\* Mutant: revocation also blanks the label.
Revoke_ClearsLabel(session) ==
  [session EXCEPT !.info.isRevoked = TRUE, !.info.isActive = FALSE,
                  !.info.label = << >>]

\* Mutant: the record is saved as it was loaded.
Revoke_SavesLoaded(session) == session

\* The in-place mutation of revokeSession.
Revoke(session) ==
  [session EXCEPT !.info.isRevoked = TRUE, !.info.isActive = FALSE]

\* All enumeration orders readdirSync may produce for a set of ids.
Orderings(ids) ==
  {o \in [1..Cardinality(ids) -> ids] :
     \A i, j \in 1..Cardinality(ids) : o[i] = o[j] => i = j}

\* -------------------------------------------------------------------- state
\* A returned call: its arguments, its outcome, the functions it called and
\* the store it started from.
Returned(op, args, status, error, value, calls, before) ==
  [op |-> op, args |-> args, status |-> status, error |-> error,
   value |-> value, calls |-> calls, before |-> before]

Ok(op, args, value, calls) == Returned(op, args, "ok", NoError, value, calls, Store)
Failure(op, args, error, calls) ==
  Returned(op, args, "error", error, << >>, calls, Store)

Idle ==
  Returned("none", << >>, "none", NoError, << >>, {},
           [files |-> [p \in {} |-> 0], dirs |-> {}])

\* A process that is in no SessionManager call.
NoCall == [pc |-> "idle", wallet |-> << >>, id |-> << >>, data |-> << >>]

Init ==
  /\ now = 0
  /\ dirs = {}
  /\ files = [p \in {} |-> 0]
  /\ uuidCount = 0
  /\ ret = Idle
  /\ createdOk = {}
  /\ revokedOk = {}
  /\ sealed = << >>
  /\ saved = [k \in {} |-> 0]
  /\ provider = << >>
  /\ walletConfig = << >>
  /\ initializedOk = FALSE
  /\ inflight = [p \in 1..MaxProcs |-> NoCall]
  /\ listed = {}

\* The wall clock advances between calls.
Tick ==
  /\ ret = Idle
  /\ UNCHANGED <<sealed, saved, facadeVars, inflight, listed>>
  /\ now < MaxTime
  /\ now' = now + 1
  /\ UNCHANGED <<dirs, files, uuidCount, ret, createdOk, revokedOk>>

\* The caller takes the outcome of the call; the next call may start.
Return ==
  /\ ret # Idle
  /\ UNCHANGED <<sealed, saved, facadeVars, inflight, listed>>
  /\ ret' = Idle
  /\ UNCHANGED <<now, dirs, files, uuidCount, createdOk, revokedOk>>

CreateSessionKey(walletAddress, config, password) ==
  LET op == "createSessionKey"
      args == [wallet |-> walletAddress, config |-> config, password |-> password]
      timesError == validateSessionTimes(config.validAfter, config.validUntil, now)
      collection == Collection(walletAddress)
      sessionPrivateKey == PrivateKey(uuidCount + 1)
      sessionId == UUID(uuidCount + 1)
      salt == Salt(uuidCount + 1)
      iv == Iv(uuidCount + 1)
      info == NewSessionInfo(sessionId, sessionPrivateKey, config, now)
      sessionData ==
        [info |-> info,
         encryptedPrivateKey |->
           JsonStringifyEnvelope(encryptKey(sessionPrivateKey, password, salt, iv))]
  IN
  /\ ret = Idle
  /\ UNCHANGED <<sealed, saved, facadeVars, inflight, listed>>
  /\ IF timesError # NoError THEN
       /\ ret' = Failure(op, args, timesError, {"validateSessionTimes"})
       /\ UNCHANGED <<now, dirs, files, uuidCount, createdOk, revokedOk>>
     ELSE IF LabelMissing(config.label) THEN
       /\ ret' = Failure(op, args, SessionKeyError("Session key label is required", << >>),
                         {"validateSessionTimes"})
       /\ UNCHANGED <<now, dirs, files, uuidCount, createdOk, revokedOk>>
     ELSE
       /\ uuidCount < MaxSessions
       /\ uuidCount' = uuidCount + 1
       /\ IF PasswordTooShort(password) THEN
            /\ ret' = Failure(op, args,
                              KeyManagementError("Password must be at least 8 characters"),
                              {"validateSessionTimes", "generatePrivateKey", "randomUUID",
                               "encryptKey"})
            /\ UNCHANGED <<now, dirs, files, createdOk, revokedOk>>
          ELSE
            /\ dirs' = dirs \cup {collection}
            /\ IF JsonThrows(info.permissions) THEN
                 /\ ret' = Failure(op, args, SaveFailed(sessionId),
                                   {"validateSessionTimes", "generatePrivateKey",
                                    "randomUUID", "encryptKey", "randomBytes", "save"})
                 /\ UNCHANGED <<now, files, createdOk, revokedOk>>
               ELSE
                 /\ files' = Written(FilePath(collection, sessionId),
                                     JsonStringify(sessionData))
                 /\ ret' = Ok(op, args, <<sessionData>>,
                              {"validateSessionTimes", "generatePrivateKey", "randomUUID",
                               "encryptKey", "randomBytes", "save", "writeFileSync"})
                 /\ createdOk' = createdOk \cup {<<walletAddress, sessionId>>}
                 /\ UNCHANGED <<now, revokedOk>>

ListSessions(walletAddress) ==
  LET collection == Collection(walletAddress)
      ids == List(collection)
  IN  /\ ret = Idle
      /\ UNCHANGED <<sealed, saved, facadeVars, inflight, listed>>
      /\ \E order \in Orderings(ids) :
           LET loaded == [i \in 1..Len(order) |-> Load(collection, order[i])]
               present == SelectSeq(loaded, LAMBDA l : l # << >>)
           IN  ret' = Ok("listSessions", [wallet |-> walletAddress],
                         [i \in 1..Len(present) |-> ListEntry(present[i][1], now)],
                         {"list", "load"})
      /\ UNCHANGED <<now, dirs, files, uuidCount, createdOk, revokedOk>>

GetSession(walletAddress, sessionId) ==
  /\ ret = Idle
  /\ UNCHANGED <<sealed, saved, facadeVars, inflight, listed>>
  /\ ret' = Ok("getSession", [wallet |-> walletAddress, id |-> sessionId],
               Load(Collection(walletAddress), sessionId), {"load"})
  /\ UNCHANGED <<now, dirs, files, uuidCount, createdOk, revokedOk>>

\* Mutant: a failed decryption locks the session by revoking it.
GetSessionPrivateKey_Lockout(walletAddress, sessionId, password) ==
  LET op == "getSessionPrivateKey"
      args == [wallet |-> walletAddress, id |-> sessionId, password |-> password]
      collection == Collection(walletAddress)
      session == Load(collection, sessionId)
      accessError == KeyAccessError(session, sessionId, now)
      opened == decryptKey(JsonParseEnvelope(session[1].encryptedPrivateKey), password)
  IN  /\ ret = Idle
      /\ UNCHANGED <<sealed, saved, facadeVars, inflight, listed>>
      /\ IF accessError # NoError THEN
           /\ ret' = Failure(op, args, accessError, {"load"})
           /\ UNCHANGED files
         ELSE IF opened.error # NoError THEN
           /\ ret' = Failure(op, args, opened.error, {"load", "decryptKey"})
           /\ files' = Written(FilePath(collection, sessionId),
                               JsonStringify(Revoke(session[1])))
         ELSE
           /\ ret' = Ok(op, args, <<opened.value>>, {"load", "decryptKey"})
           /\ UNCHANGED files
      /\ UNCHANGED <<now, dirs, uuidCount, createdOk, revokedOk>>

GetSessionPrivateKey(walletAddress, sessionId, password) ==
  LET op == "getSessionPrivateKey"
      args == [wallet |-> walletAddress, id |-> sessionId, password |-> password]
      session == Load(Collection(walletAddress), sessionId)
      accessError == KeyAccessError(session, sessionId, now)
      opened == decryptKey(JsonParseEnvelope(session[1].encryptedPrivateKey), password)
  IN  /\ ret = Idle
      /\ UNCHANGED <<sealed, saved, facadeVars, inflight, listed>>
      /\ ret' = IF accessError # NoError THEN Failure(op, args, accessError, {"load"})
                ELSE IF opened.error # NoError
                  THEN Failure(op, args, opened.error, {"load", "decryptKey"})
                ELSE Ok(op, args, <<opened.value>>, {"load", "decryptKey"})
      /\ UNCHANGED <<now, dirs, files, uuidCount, createdOk, revokedOk>>

RevokeSession(walletAddress, sessionId) ==
  LET op == "revokeSession"
      args == [wallet |-> walletAddress, id |-> sessionId]
      collection == Collection(walletAddress)
      session == Load(collection, sessionId)
  IN  /\ ret = Idle
      /\ UNCHANGED <<sealed, saved, facadeVars, inflight, listed>>
      /\ IF session = << >> THEN
           /\ ret' = Failure(op, args, SessionNotFound(sessionId), {"load"})
           /\ UNCHANGED <<now, dirs, files, uuidCount, createdOk, revokedOk>>
         ELSE
           /\ dirs' = dirs \cup {collection}
           /\ files' = Written(FilePath(collection, sessionId),
                               JsonStringify(Revoke(session[1])))
           /\ ret' = Ok(op, args, <<TRUE>>, {"load", "save", "writeFileSync"})
           /\ revokedOk' = revokedOk \cup {<<walletAddress, sessionId>>}
           /\ UNCHANGED <<now, uuidCount, createdOk>>

Next ==
  \/ Tick
  \/ Return
  \/ \E w \in Wallets, input \in CreateInputs : CreateSessionKey(w, input[1], input[2])
  \/ \E w \in Wallets : ListSessions(w)
  \/ \E w \in Wallets, id \in SessionIds : GetSession(w, id)
  \/ \E w \in Wallets, id \in SessionIds, p \in Passwords : GetSessionPrivateKey(w, id, p)
  \/ \E w \in Wallets, id \in SessionIds : RevokeSession(w, id)

Spec == Init /\ [][Next]_vars

\* The same operations for sessions that pass validation but for the
\* password, which is short or good.
NextKeys ==
  \/ Tick
  \/ Return
  \/ \E w \in Wallets, window \in {WindowFirst, WindowLong},
        password \in {PasswordShort, PasswordGood} :
       CreateSessionKey(w, Config(LabelBot, window, PermsNone), password)
  \/ \E w \in Wallets : ListSessions(w)
  \/ \E w \in Wallets, id \in SessionIds : GetSession(w, id)
  \/ \E w \in Wallets, id \in SessionIds, p \in Passwords : GetSessionPrivateKey(w, id, p)
  \/ \E w \in Wallets, id \in SessionIds : RevokeSession(w, id)

SpecKeys == Init /\ [][NextKeys]_vars

\* The same operations, createSessionKey being called with wrongly shaped
\* permission objects.
NextShape ==
  \/ Tick
  \/ Return
  \/ \E w \in Wallets, input \in CreateShapeInputs :
       CreateSessionKey(w, input[1], input[2])
  \/ \E w \in Wallets : ListSessions(w)
  \/ \E w \in Wallets, id \in SessionIds : GetSession(w, id)
  \/ \E w \in Wallets, id \in SessionIds, p \in Passwords : GetSessionPrivateKey(w, id, p)
  \/ \E w \in Wallets, id \in SessionIds : RevokeSession(w, id)

SpecShape == Init /\ [][NextShape]_vars

\* What an entry returned by listSessions at time t says about a session:
\* active, or inactive before its window, after it, or inside it.
Phase(entry, t) ==
  IF entry.isActive THEN "active"
  ELSE IF t < entry.validAfter THEN "pending"
  ELSE IF t >= entry.validUntil THEN "expired"
  ELSE "inactive"

\* A caller that takes the outcome of its call and keeps, of a listSessions,
\* what each entry of a session that is not revoked said.
Observe ==
  /\ ret # Idle
  /\ ret' = Idle
  /\ listed' =
       IF ret.op = "listSessions"
         THEN listed \cup {<<ret.value[i].id, Phase(ret.value[i], now)>> :
                             i \in {j \in DOMAIN ret.value : ~ret.value[j].isRevoked}}
         ELSE listed
  /\ UNCHANGED <<now, dirs, files, uuidCount, createdOk, revokedOk, sealed, saved,
                 facadeVars, inflight>>

\* One wallet whose sessions are created with windows that open at once or
\* later, listed again and again while the clock advances, and revoked.
NextLifecycle ==
  \/ Tick
  \/ Observe
  \/ \E window \in {WindowFirst, WindowLong, <<1, 2>>} :
       CreateSessionKey(WalletA, Config(LabelBot, window, PermsNone), PasswordGood)
  \/ ListSessions(WalletA)
  \/ \E id \in SessionIds : RevokeSession(WalletA, id)

SpecLifecycle == Init /\ [][NextLifecycle]_vars

\* revokeSession and createSessionKey called by several processes that share
\* the store.  There is no lock: the load of revokeSession and its save, and
\* the key generation of createSessionKey and its save, are separate steps,
\* and steps of other processes come between them.
RevokeLoad(p, walletAddress, sessionId) ==
  LET session == Load(Collection(walletAddress), sessionId)
  IN  /\ inflight[p] = NoCall
      /\ inflight' =
           IF session = << >> THEN inflight
           ELSE [inflight EXCEPT ![p] = [pc |-> "revokeSession", wallet |-> walletAddress,
                                         id |-> sessionId, data |-> session]]
      /\ UNCHANGED <<now, dirs, files, uuidCount, ret, createdOk, revokedOk, sealed, saved,
                     facadeVars, listed>>

RevokeSave(p) ==
  LET call == inflight[p]
      collection == Collection(call.wallet)
  IN  /\ call.pc = "revokeSession"
      /\ dirs' = dirs \cup {collection}
      /\ files' = Written(FilePath(collection, call.id), JsonStringify(Revoke(call.data[1])))
      /\ revokedOk' = revokedOk \cup {<<call.wallet, call.id>>}
      /\ inflight' = [inflight EXCEPT ![p] = NoCall]
      /\ UNCHANGED <<now, uuidCount, ret, createdOk, sealed, saved, facadeVars, listed>>

CreateBegin(p, walletAddress, config, password) ==
  LET sessionPrivateKey == PrivateKey(uuidCount + 1)
      sessionId == UUID(uuidCount + 1)
      info == NewSessionInfo(sessionId, sessionPrivateKey, config, now)
      sessionData ==
        [info |-> info,
         encryptedPrivateKey |->
           JsonStringifyEnvelope(encryptKey(sessionPrivateKey, password,
                                            Salt(uuidCount + 1), Iv(uuidCount + 1)))]
  IN  /\ inflight[p] = NoCall
      /\ validateSessionTimes(config.validAfter, config.validUntil, now) = NoError
      /\ ~LabelMissing(config.label)
      /\ uuidCount < MaxSessions
      /\ uuidCount' = uuidCount + 1
      /\ inflight' =
           IF PasswordTooShort(password) THEN inflight
           ELSE [inflight EXCEPT ![p] = [pc |-> "createSessionKey", wallet |-> walletAddress,
                                         id |-> sessionId, data |-> <<sessionData>>]]
      /\ UNCHANGED <<now, dirs, files, ret, createdOk, revokedOk, sealed, saved, facadeVars, listed>>

CreateSave(p) ==
  LET call == inflight[p]
      collection == Collection(call.wallet)
  IN  /\ call.pc = "createSessionKey"
      /\ dirs' = dirs \cup {collection}
      /\ IF JsonThrows(call.data[1].info.permissions) THEN UNCHANGED <<files, createdOk>>
         ELSE /\ files' = Written(FilePath(collection, call.id), JsonStringify(call.data[1]))
              /\ createdOk' = createdOk \cup {<<call.wallet, call.id>>}
      /\ inflight' = [inflight EXCEPT ![p] = NoCall]
      /\ UNCHANGED <<now, uuidCount, ret, revokedOk, sealed, saved, facadeVars, listed>>

NextRace ==
  \/ \E p \in 1..MaxProcs, w \in Wallets, id \in SessionIds : RevokeLoad(p, w, id)
  \/ \E p \in 1..MaxProcs : RevokeSave(p)
  \/ \E p \in 1..MaxProcs, w \in Wallets, password \in {PasswordShort, PasswordGood} :
       CreateBegin(p, w, Config(LabelBot, WindowLong, PermsNone), password)
  \/ \E p \in 1..MaxProcs : CreateSave(p)

SpecRace == Init /\ [][NextRace]_vars

\* The same operations at one instant, called for one wallet under two
\* spellings of its address and for another wallet, and with session ids
\* that are relative paths into the collection of the first wallet:
\* "../<address>/<id>".
Spellings == {WalletA, ToLowerCase(WalletA), WalletB}
PathIds ==
  {<<"..", "/">> \o ToLowerCase(WalletA) \o <<"/">> \o id : id \in SessionIds}

NextAddress ==
  \/ Return
  \/ \E w \in {WalletA, ToLowerCase(WalletA)} :
       CreateSessionKey(w, Config(LabelBot, WindowLong, PermsNone), PasswordGood)
  \/ \E w \in Spellings : ListSessions(w)
  \/ \E w \in Spellings, id \in SessionIds \cup PathIds : GetSession(w, id)
  \/ \E w \in Spellings, id \in SessionIds \cup PathIds, p \in {PasswordGood, PasswordOther} :
       GetSessionPrivateKey(w, id, p)
  \/ \E w \in {ToLowerCase(WalletA)}, id \in SessionIds : RevokeSession(w, id)
  \/ \E w \in {WalletB}, id \in PathIds : RevokeSession(w, id)

SpecAddress == Init /\ [][NextAddress]_vars

\* -------------------------------------------------------------- cipher calls
\* encryptKey called directly; the n-th call that passes the password check
\* draws Salt(n) and Iv(n).
EncryptKey(privateKey, password) ==
  LET op == "encryptKey"
      args == [privateKey |-> privateKey, password |-> password]
      n == Len(sealed) + 1
      envelope == encryptKey(privateKey, password, Salt(n), Iv(n))
  IN  /\ ret = Idle
      /\ IF PasswordTooShort(password) THEN
           /\ ret' = Failure(op, args,
                             KeyManagementError("Password must be at least 8 characters"),
                             {})
           /\ UNCHANGED sealed
         ELSE
           /\ Len(sealed) < MaxSeals
           /\ sealed' = Append(sealed, [privateKey |-> privateKey, password |-> password,
                                        envelope |-> envelope])
           /\ ret' = Ok(op, args, <<envelope>>,
                        {"randomBytes", "scryptSync", "createCipheriv"})
      /\ UNCHANGED <<now, dirs, files, uuidCount, createdOk, revokedOk, saved, facadeVars, inflight, listed>>

\* An envelope with one field altered after sealing.
OtherBytes(bytes) ==
  IF bytes = << >> THEN <<1>> ELSE [bytes EXCEPT ![1] = (@ + 1) % 256]

EnvelopeFields == {"ciphertext", "authTag", "iv", "salt", "kdfParams"}

Corrupt(envelope, field) ==
  CASE field = "ciphertext" -> [envelope EXCEPT !.ciphertext.bytes = OtherBytes(@)]
    [] field = "authTag" -> [envelope EXCEPT !.authTag.bytes = OtherBytes(@)]
    [] field = "iv" -> [envelope EXCEPT !.iv = Iv(0)]
    [] field = "salt" -> [envelope EXCEPT !.salt = Salt(0)]
    [] field = "kdfParams" -> [envelope EXCEPT !.kdfParams.n = 2 * @]

SealedEnvelopes == {sealed[i].envelope : i \in DOMAIN sealed}

EnvelopeInputs ==
  SealedEnvelopes \cup {Corrupt(e, field) : e \in SealedEnvelopes, field \in EnvelopeFields}

\* Every envelope a caller can hold within the bounds.
EnvelopeUniverse ==
  LET genuine == {encryptKey(k, p, Salt(n), Iv(n)) :
                    k \in PrivateKeyInputs, p \in KeyManagerPasswords, n \in 1..MaxSeals}
  IN  genuine \cup {Corrupt(e, field) : e \in genuine, field \in EnvelopeFields}

\* decryptKey called directly, on an envelope encryptKey returned earlier,
\* as returned or with one field altered.
DecryptKey(encryptedData, password) ==
  LET op == "decryptKey"
      args == [encryptedData |-> encryptedData, password |-> password]
      opened == decryptKey(encryptedData, password)
  IN  /\ ret = Idle
      /\ encryptedData \in EnvelopeInputs
      /\ ret' = IF opened.error # NoError
                  THEN Failure(op, args, opened.error, {"scryptSync", "createDecipheriv"})
                  ELSE Ok(op, args, <<opened.value>>, {"scryptSync", "createDecipheriv"})
      /\ UNCHANGED <<now, dirs, files, uuidCount, createdOk, revokedOk, sealed, saved,
                     facadeVars, inflight, listed>>

\* KeyManager.encryptPrivateKey and KeyManager.decryptPrivateKey.
EncryptPrivateKey(privateKey, password) ==
  LET op == "encryptPrivateKey"
      args == [privateKey |-> privateKey, password |-> password]
      n == Len(sealed) + 1
      envelope == encryptKey(privateKey, password, Salt(n), Iv(n))
  IN  /\ ret = Idle
      /\ IF validatePrivateKey(privateKey) # NoError THEN
           /\ ret' = Failure(op, args, validatePrivateKey(privateKey),
                             {"validatePrivateKey"})
           /\ UNCHANGED sealed
         ELSE IF validatePassword(password) # NoError THEN
           /\ ret' = Failure(op, args, validatePassword(password),
                             {"validatePrivateKey", "validatePassword"})
           /\ UNCHANGED sealed
         ELSE IF PasswordTooShort(password) THEN
           /\ ret' = Failure(op, args,
                             KeyManagementError("Password must be at least 8 characters"),
                             {"validatePrivateKey", "validatePassword", "encryptKey"})
           /\ UNCHANGED sealed
         ELSE
           /\ Len(sealed) < MaxSeals
           /\ sealed' = Append(sealed, [privateKey |-> privateKey, password |-> password,
                                        envelope |-> envelope])
           /\ ret' = Ok(op, args, <<envelope>>,
                        {"validatePrivateKey", "validatePassword", "encryptKey"})
      /\ UNCHANGED <<now, dirs, files, uuidCount, createdOk, revokedOk, saved, facadeVars, inflight, listed>>

DecryptPrivateKey(encryptedData, password) ==
  LET op == "decryptPrivateKey"
      args == [encryptedData |-> encryptedData, password |-> password]
      opened == decryptKey(encryptedData, password)
  IN  /\ ret = Idle
      /\ encryptedData \in EnvelopeInputs
      /\ ret' = IF opened.error # NoError
                  THEN Failure(op, args, opened.error, {"decryptKey"})
                  ELSE Ok(op, args, opened.value, {"decryptKey"})
      /\ UNCHANGED <<now, dirs, files, uuidCount, createdOk, revokedOk, sealed, saved,
                     facadeVars, inflight, listed>>

NextCipher ==
  \/ Return
  \/ \E k \in PrivateKeyInputs, p \in CipherPasswords : EncryptKey(k, p)
  \/ \E e \in EnvelopeUniverse, p \in CipherPasswords : DecryptKey(e, p)
  \/ \E k \in PrivateKeyInputs \cup {NonHexKey, TestKeyDigits}, p \in KeyManagerPasswords : EncryptPrivateKey(k, p)
  \/ \E e \in EnvelopeUniverse, p \in KeyManagerPasswords : DecryptPrivateKey(e, p)

SpecCipher == Init /\ [][NextCipher]_vars

\* ------------------------------------------------------------ AgenticWallet
WALLET_COLLECTION == <<"wallets">>
VALID_PROVIDERS == {"alchemy", "zerodev"}
SUPPORTED_CHAINS == {"arbitrum-one", "arbitrum-sepolia"}

\* WalletConfig values passed to initialize, passwords and private keys passed
\* to createWallet / importWallet, and the options of sendTransaction.
WalletConfigs ==
  [network : SUPPORTED_CHAINS \cup {"mainnet"},
   provider : {"alchemy", "zerodev", "ambire", "pimlico"},
   apiKey : {"test-key"}]
WalletPasswords == {PasswordShort, PasswordGood}

\* ownerAddress.toLowerCase(): the lower-case spelling of an address, as the
\* tokens of a file name; the address itself is spelled with its checksum.
WalletIdOf(privateKey) ==
  <<"addressof">> \o ToHex(privateKeyToAccount(privateKey).address[2])
WalletIdInputs ==
  {WalletIdOf(TestKey), WalletIdOf(PrivateKey(1)),
   <<"addressOf">> \o ToHex(privateKeyToAccount(TestKey).address[2])}

InvalidProviderError(type) ==
  [name |-> "InvalidProviderError", code |-> "INVALID_PROVIDER",
   text |-> "Unsupported provider", arg |-> <<type>>]
ProviderError(text, name) ==
  [name |-> "ProviderError", code |-> "PROVIDER_ERROR", text |-> text, arg |-> <<name>>]
\* The error of calling a method of this.provider while it is null.
NullProvider == [name |-> "TypeError", code |-> "", text |-> "null", arg |-> << >>]
\* The error a failing RPC request throws.
RpcError == [name |-> "Error", code |-> "", text |-> "rpc", arg |-> << >>]

validateNetwork(network) ==
  IF network \notin SUPPORTED_CHAINS
    THEN [name |-> "InvalidNetworkError", code |-> "INVALID_NETWORK",
          text |-> "Unsupported network", arg |-> <<network>>]
    ELSE NoError

validateProvider(type) ==
  IF type \notin VALID_PROVIDERS THEN InvalidProviderError(type) ELSE NoError

\* createProvider: a provider object not yet initialized, or the error thrown.
createProvider(type) ==
  IF type \in {"alchemy", "zerodev", "ambire"}
    THEN [error |-> NoError, value |-> <<[name |-> type, chain |-> << >>, apiKey |-> ""]>>]
    ELSE [error |-> InvalidProviderError(type), value |-> << >>]

\* The providers' own ensureInitialized.
ProviderEnsureInitialized(p) ==
  IF p.chain = << >> \/ p.apiKey = ""
    THEN ProviderError("provider not initialized. Call initialize() first.", p.name)
    ELSE NoError

\* Mutant: the wallet is taken as initialized.
ensureInitialized_Skipped == NoError

\* AgenticWallet.ensureInitialized: the error thrown, or NoError.
ensureInitialized ==
  IF provider = << >> \/ walletConfig = << >>
    THEN AgenticWalletError("Wallet not initialized. Call initialize() first.",
                            "NOT_INITIALIZED")
    ELSE NoError

Initialize(config) ==
  LET op == "initialize"
      args == [config |-> config]
      created == createProvider(config.provider)
  IN  /\ ret = Idle
      /\ IF validateNetwork(config.network) # NoError THEN
           /\ ret' = Failure(op, args, validateNetwork(config.network), {"validateNetwork"})
           /\ UNCHANGED <<provider, walletConfig, initializedOk>>
         ELSE IF validateProvider(config.provider) # NoError THEN
           /\ ret' = Failure(op, args, validateProvider(config.provider),
                             {"validateNetwork", "validateProvider"})
           /\ UNCHANGED <<provider, walletConfig, initializedOk>>
         ELSE IF created.error # NoError THEN
           /\ walletConfig' = <<config>>
           /\ ret' = Failure(op, args, created.error,
                             {"validateNetwork", "validateProvider", "createProvider"})
           /\ UNCHANGED <<provider, initializedOk>>
         ELSE
           /\ walletConfig' = <<config>>
           /\ provider' = <<[created.value[1] EXCEPT !.chain = <<config.network>>,
                                                     !.apiKey = config.apiKey]>>
           /\ initializedOk' = TRUE
           /\ ret' = Ok(op, args, << >>,
                        {"validateNetwork", "validateProvider", "createProvider",
                         "getChain", "provider.initialize"})
      /\ UNCHANGED <<now, dirs, files, uuidCount, createdOk, revokedOk, sealed, saved,
                     inflight, listed>>

\* The common body of createWallet and importWallet after ensureInitialized:
\* getAddress, encryptPrivateKey, getSmartAccountAddress, save; then, for
\* importWallet, isAccountDeployed with the outcome rpc of the request.  The
\* JSON text of a StoredWallet holds strings, numbers and the envelope object.
StoreWallet(op, args, privateKey, password, rpc) ==
  LET n == Len(sealed) + 1
      envelope == encryptKey(privateKey, password, Salt(n), Iv(n))
      storedWallet ==
        [id |-> WalletIdOf(privateKey),
         address |-> privateKeyToAccount(privateKey).address,
         ownerAddress |-> privateKeyToAccount(privateKey).address,
         encryptedKey |-> envelope,
         network |-> walletConfig[1].network,
         provider |-> walletConfig[1].provider,
         createdAt |-> now]
      info == [address |-> storedWallet.address,
               isDeployed |-> rpc = "deployed",
               ownerAddress |-> storedWallet.ownerAddress,
               network |-> storedWallet.network,
               provider |-> storedWallet.provider]
      validated == {"ensureInitialized", "validatePrivateKey", "validatePassword"}
      stored == validated \cup {"encryptKey", "provider.getSmartAccountAddress", "save"}
  IN  IF validatePrivateKey(privateKey) # NoError THEN
        /\ ret' = Failure(op, args, validatePrivateKey(privateKey),
                          {"ensureInitialized", "validatePrivateKey"})
        /\ UNCHANGED <<dirs, files, sealed>>
      ELSE IF validatePassword(password) # NoError THEN
        /\ ret' = Failure(op, args, validatePassword(password), validated)
        /\ UNCHANGED <<dirs, files, sealed>>
      ELSE
        /\ Len(sealed) < MaxSeals
        /\ sealed' = Append(sealed, [privateKey |-> privateKey, password |-> password,
                                     envelope |-> envelope])
        /\ IF provider = << >> \/ walletConfig = << >> THEN
             /\ ret' = Failure(op, args, NullProvider, validated \cup {"encryptKey"})
             /\ UNCHANGED <<dirs, files>>
           ELSE IF ProviderEnsureInitialized(provider[1]) # NoError THEN
             /\ ret' = Failure(op, args, ProviderEnsureInitialized(provider[1]),
                               validated \cup {"encryptKey", "provider.getSmartAccountAddress"})
             /\ UNCHANGED <<dirs, files>>
           ELSE
             /\ dirs' = dirs \cup {WALLET_COLLECTION}
             /\ files' = Written(FilePath(WALLET_COLLECTION, storedWallet.id),
                                 [json |-> storedWallet])
             /\ ret' = IF rpc = "fail"
                         THEN Failure(op, args, RpcError,
                                      stored \cup {"provider.isAccountDeployed"})
                       ELSE IF op = "importWallet"
                         THEN Ok(op, args, <<info>>, stored \cup {"provider.isAccountDeployed"})
                       ELSE Ok(op, args, <<info>>, stored)

CreateWallet(password) ==
  LET op == "createWallet"
      args == [password |-> password]
  IN  /\ ret = Idle
      /\ IF ensureInitialized # NoError THEN
           /\ ret' = Failure(op, args, ensureInitialized, {"ensureInitialized"})
           /\ UNCHANGED <<dirs, files, sealed>>
         ELSE StoreWallet(op, args, PrivateKey(Len(sealed) + 1), password, "undeployed")
      /\ UNCHANGED <<now, uuidCount, createdOk, revokedOk, saved, facadeVars, inflight, listed>>

ImportWallet(privateKey, password, rpc) ==
  LET op == "importWallet"
      args == [privateKey |-> privateKey, password |-> password, rpc |-> rpc]
      reached == /\ ensureInitialized = NoError
                 /\ validatePrivateKey(privateKey) = NoError
                 /\ validatePassword(password) = NoError
  IN  /\ ret = Idle
      /\ rpc # "undeployed" => reached
      /\ IF ensureInitialized # NoError THEN
           /\ ret' = Failure(op, args, ensureInitialized, {"ensureInitialized"})
           /\ UNCHANGED <<dirs, files, sealed>>
         ELSE StoreWallet(op, args, privateKey, password, rpc)
      /\ UNCHANGED <<now, uuidCount, createdOk, revokedOk, saved, facadeVars, inflight, listed>>

GetWalletInfo(walletId, rpc) ==
  LET op == "getWalletInfo"
      args == [walletId |-> walletId, rpc |-> rpc]
      stored == Load(WALLET_COLLECTION, walletId)
      info(isDeployed) ==
        [address |-> stored[1].address,
         isDeployed |-> isDeployed,
         ownerAddress |-> stored[1].ownerAddress,
         network |-> stored[1].network,
         provider |-> stored[1].provider]
  IN  /\ ret = Idle
      /\ rpc # "undeployed" =>
           /\ stored # << >>
           /\ provider # << >>
           /\ ProviderEnsureInitialized(provider[1]) = NoError
      /\ ret' = IF stored = << >> THEN Ok(op, args, << >>, {"load"})
                ELSE IF provider = << >> THEN Ok(op, args, <<info(FALSE)>>, {"load"})
                ELSE IF ProviderEnsureInitialized(provider[1]) # NoError
                  THEN Failure(op, args, ProviderEnsureInitialized(provider[1]),
                               {"load", "provider.isAccountDeployed"})
                ELSE IF rpc = "fail"
                  THEN Failure(op, args, RpcError, {"load", "provider.isAccountDeployed"})
                ELSE Ok(op, args, <<info(rpc = "deployed")>>,
                        {"load", "provider.isAccountDeployed"})
      /\ UNCHANGED <<now, dirs, files, uuidCount, createdOk, revokedOk, sealed, saved,
                     facadeVars, inflight, listed>>

GetBalance(address, rpc) ==
  LET op == "getBalance"
      args == [address |-> address, rpc |-> rpc]
  IN  /\ ret = Idle
      /\ rpc # "ok" => ensureInitialized = NoError
      /\ ret' = IF ensureInitialized # NoError
                  THEN Failure(op, args, ensureInitialized, {"ensureInitialized"})
                ELSE IF provider = << >>
                  THEN Failure(op, args, NullProvider, {"ensureInitialized"})
                ELSE IF ProviderEnsureInitialized(provider[1]) # NoError
                  THEN Failure(op, args, ProviderEnsureInitialized(provider[1]),
                               {"ensureInitialized", "provider.getBalance"})
                ELSE IF rpc = "fail"
                  THEN Failure(op, args, RpcError, {"ensureInitialized", "provider.getBalance"})
                ELSE Ok(op, args,
                        <<[address |-> address, balance |-> BigIntVal(0), symbol |-> "ETH"]>>,
                        {"ensureInitialized", "provider.getBalance"})
      /\ UNCHANGED <<now, dirs, files, uuidCount, createdOk, revokedOk, sealed, saved,
                     facadeVars, inflight, listed>>

SendTransaction(walletId, password, options, rpc) ==
  LET op == "sendTransaction"
      args == [walletId |-> walletId, password |-> password, options |-> options,
               rpc |-> rpc]
      stored == Load(WALLET_COLLECTION, walletId)
      opened == decryptKey(stored[1].encryptedKey, password)
      loaded == {"ensureInitialized", "load"}
      request == IF options.dryRun THEN "provider.estimateUserOperationGas"
                 ELSE "provider.sendUserOperation"
      reached == /\ ensureInitialized = NoError
                 /\ stored # << >>
                 /\ opened.error = NoError
                 /\ provider # << >>
                 /\ ProviderEnsureInitialized(provider[1]) = NoError
                 /\ options.dryRun \/ options.calls > 0
  IN  /\ ret = Idle
      /\ rpc # "ok" => reached
      /\ ret' = IF ensureInitialized # NoError
                  THEN Failure(op, args, ensureInitialized, {"ensureInitialized"})
                ELSE IF stored = << >>
                  THEN Failure(op, args,
                               [name |-> "AgenticWalletError", code |-> "WALLET_NOT_FOUND",
                                text |-> "Wallet not found: ", arg |-> walletId],
                               loaded)
                ELSE IF opened.error # NoError
                  THEN Failure(op, args, opened.error, loaded \cup {"decryptKey"})
                ELSE IF provider = << >>
                  THEN Failure(op, args, NullProvider, loaded \cup {"decryptKey"})
                ELSE IF ProviderEnsureInitialized(provider[1]) # NoError
                  THEN Failure(op, args, ProviderEnsureInitialized(provider[1]),
                               loaded \cup {"decryptKey", request})
                ELSE IF ~options.dryRun /\ options.calls = 0
                  THEN Failure(op, args,
                               ProviderError("At least one call is required", provider[1].name),
                               loaded \cup {"decryptKey", request})
                ELSE IF rpc = "fail"
                  THEN Failure(op, args,
                               IF options.dryRun THEN RpcError
                               ELSE ProviderError("Failed to send user operation",
                                                  provider[1].name),
                               loaded \cup {"decryptKey", request})
                ELSE Ok(op, args, <<[success |-> TRUE]>>, loaded \cup {"decryptKey", request})
      /\ UNCHANGED <<now, dirs, files, uuidCount, createdOk, revokedOk, sealed, saved,
                     facadeVars, inflight, listed>>

NextWallet ==
  \/ Return
  \/ \E c \in WalletConfigs : Initialize(c)
  \/ \E p \in WalletPasswords : CreateWallet(p)
  \/ \E k \in {TestKey, TestKeyUpper, ShortKey}, p \in WalletPasswords,
        rpc \in {"deployed", "undeployed", "fail"} : ImportWallet(k, p, rpc)
  \/ \E id \in WalletIdInputs, rpc \in {"deployed", "undeployed", "fail"} :
       GetWalletInfo(id, rpc)
  \/ \E rpc \in {"ok", "fail"} : GetBalance(privateKeyToAccount(TestKey).address, rpc)
  \/ \E id \in WalletIdInputs, p \in WalletPasswords,
        o \in {[dryRun |-> TRUE, calls |-> 1], [dryRun |-> FALSE, calls |-> 1],
               [dryRun |-> FALSE, calls |-> 0]},
        rpc \in {"ok", "fail"} : SendTransaction(id, p, o, rpc)

SpecWallet == Init /\ [][NextWallet]_vars

\* ------------------------------------------------------- FileStorage calls
\* The parameter fault names the node:fs call that fails during the call, if any.
StorageSave(collection, id, data, fault) ==
  LET op == "save"
      args == [collection |-> collection, id |-> id, data |-> data, fault |-> fault]
      path == FilePath(collection, id)
      made == IF collection \in dirs THEN {} ELSE {"mkdirSync"}
      key == <<collection, id>>
  IN  /\ ret = Idle
      /\ fault = "mkdirSync" => collection \notin dirs
      /\ fault = "writeFileSync" => ~JsonThrows(data)
      /\ IF fault = "mkdirSync" THEN
           /\ ret' = Failure(op, args, FsError("mkdirSync"), {"existsSync", "mkdirSync"})
           /\ UNCHANGED <<dirs, files, saved>>
         ELSE
           /\ dirs' = dirs \cup {collection}
           /\ IF JsonThrows(data) THEN
                /\ ret' = Failure(op, args, SaveFailed(id),
                                  {"existsSync", "JSON.stringify"} \cup made)
                /\ UNCHANGED <<files, saved>>
              ELSE IF fault = "writeFileSync" THEN
                /\ ret' = Failure(op, args, SaveFailed(id),
                                  {"existsSync", "JSON.stringify", "writeFileSync"} \cup made)
                /\ UNCHANGED <<files, saved>>
              ELSE
                /\ files' = Written(path, [json |-> JsonObject(data)])
                /\ saved' = [k \in DOMAIN saved \cup {key} |->
                               IF k = key
                                 THEN [data |-> data, overwrote |-> key \in DOMAIN saved]
                                 ELSE saved[k]]
                /\ ret' = Ok(op, args, << >>,
                             {"existsSync", "JSON.stringify", "writeFileSync"} \cup made)
      /\ UNCHANGED <<now, uuidCount, createdOk, revokedOk, sealed, facadeVars, inflight, listed>>

StorageLoad(collection, id, fault) ==
  LET op == "load"
      args == [collection |-> collection, id |-> id, fault |-> fault]
      path == FilePath(collection, id)
  IN  /\ ret = Idle
      /\ fault # "none" => existsSync(Store, path)
      /\ ret' = IF ~existsSync(Store, path) THEN Ok(op, args, << >>, {"existsSync"})
                ELSE IF fault = "readFileSync"
                  THEN Failure(op, args, LoadFailed(id), {"existsSync", "readFileSync"})
                ELSE IF fault = "JSON.parse"
                  THEN Failure(op, args, LoadFailed(id),
                               {"existsSync", "readFileSync", "JSON.parse"})
                ELSE Ok(op, args, LoadFrom(Store, collection, id),
                        {"existsSync", "readFileSync", "JSON.parse"})
      /\ UNCHANGED <<now, dirs, files, uuidCount, createdOk, revokedOk, sealed, saved,
                     facadeVars, inflight, listed>>

\* readdirSync(...).filter(endsWith('.json')).map(replace('.json', '')), in
\* any order readdirSync may enumerate the directory.
StorageList(collection, fault) ==
  LET op == "list"
      args == [collection |-> collection, fault |-> fault]
      names == {f \in readdirSync(Store, collection) : EndsWithJson(f)}
  IN  /\ ret = Idle
      /\ fault # "none" => collection \in dirs
      /\ IF collection \notin dirs THEN ret' = Ok(op, args, << >>, {"existsSync"})
         ELSE IF fault = "readdirSync"
           THEN ret' = Failure(op, args, FsError("readdirSync"), {"existsSync", "readdirSync"})
         ELSE \E order \in Orderings(names) :
                ret' = Ok(op, args, [i \in DOMAIN order |-> ReplaceJson(order[i])],
                          {"existsSync", "readdirSync"})
      /\ UNCHANGED <<now, dirs, files, uuidCount, createdOk, revokedOk, sealed, saved,
                     facadeVars, inflight, listed>>

StorageDelete(collection, id, fault) ==
  LET op == "delete"
      args == [collection |-> collection, id |-> id, fault |-> fault]
      path == FilePath(collection, id)
      key == <<collection, id>>
  IN  /\ ret = Idle
      /\ fault # "none" => existsSync(Store, path)
      /\ IF ~existsSync(Store, path) THEN
           /\ ret' = Ok(op, args, <<FALSE>>, {"existsSync"})
           /\ UNCHANGED <<files, saved>>
         ELSE IF fault = "unlinkSync" THEN
           /\ ret' = Ok(op, args, <<FALSE>>, {"existsSync", "unlinkSync"})
           /\ UNCHANGED <<files, saved>>
         ELSE
           /\ files' = [p \in DOMAIN files \ {path} |-> files[p]]
           /\ saved' = [k \in DOMAIN saved \ {key} |-> saved[k]]
           /\ ret' = Ok(op, args, <<TRUE>>, {"existsSync", "unlinkSync"})
      /\ UNCHANGED <<now, dirs, uuidCount, createdOk, revokedOk, sealed, facadeVars, inflight, listed>>

NextStorage ==
  \/ Return
  \/ \E c \in StorageCollections, id \in StorageIds, data \in StorageData,
        fault \in {"none", "mkdirSync", "writeFileSync"} : StorageSave(c, id, data, fault)
  \/ \E c \in StorageCollections, id \in StorageIds, fault \in {"none", "readFileSync", "JSON.parse"} :
       StorageLoad(c, id, fault)
  \/ \E c \in StorageCollections, fault \in {"none", "readdirSync"} : StorageList(c, fault)
  \/ \E c \in StorageCollections, id \in StorageIds, fault \in {"none", "unlinkSync"} :
       StorageDelete(c, id, fault)

SpecStorage == Init /\ [][NextStorage]_vars

\* ------------------------------------------------------------------- views
\* The stored record a returned call addressed, as <<record>> or << >>.
Addressed == Load(Collection(ret.args.wallet), ret.args.id)

\* The descriptors a store holds for a wallet.
SessionsIn(store, w) ==
  {LoadFrom(store, Collection(w), id)[1].info : id \in ListFrom(store, Collection(w))}

StoredSessions(w) == SessionsIn(Store, w)

KeyCall == ret.op = "getSessionPrivateKey"
ListCall == ret.op = "listSessions"
CreateCall == ret.op = "createSessionKey"
RevokeCall == ret.op = "revokeSession"

\* The stored record a returned call addressed, in the store it started from.
AddressedBefore == LoadFrom(ret.before, Collection(ret.args.wallet), ret.args.id)

\* The call left the files, the directories and every wallet's sessions alone.
StoreUntouched ==
  /\ files = ret.before.files
  /\ dirs = ret.before.dirs
  /\ \A w \in Wallets : StoredSessions(w) = SessionsIn(ret.before, w)

DecryptCall == ret.op = "decryptKey"

\* The encryptKey calls that produced the envelope a decryptKey call was given.
SealsOf(envelope) == {i \in DOMAIN sealed : sealed[i].envelope = envelope}

\* ------------------------------------------------------------------ claims
\* C1: once revokeSession(w, id) has returned true, every later
\* listSessions(w) reports id with isRevoked = TRUE and isActive = FALSE.
C1_RevocationPermanent ==
  ListCall =>
    \A r \in revokedOk :
      r[1] = ret.args.wallet =>
        \E i \in DOMAIN ret.value :
          /\ ret.value[i].id = r[2]
          /\ ret.value[i].isRevoked
          /\ ~ret.value[i].isActive

\* A revoked session listed inside its validity window, after a later create.
C1_Witness ==
  /\ ListCall
  /\ \E r \in revokedOk, i \in DOMAIN ret.value :
       /\ r[1] = ret.args.wallet
       /\ ret.value[i].id = r[2]
       /\ ret.value[i].validAfter <= now
       /\ now < ret.value[i].validUntil
       /\ now > ret.value[i].createdAt
  /\ Cardinality(createdOk) > 1

\* C2: after revokeSession(w, id) has returned true, getSessionPrivateKey(w, id, p)
\* fails with the revoked error and returns no key, for every password and time.
C2_RevokedKeyRefused ==
  (KeyCall /\ <<ret.args.wallet, ret.args.id>> \in revokedOk) =>
    /\ ret.status = "error"
    /\ ret.error.name = "SessionKeyError"
    /\ ret.error.text = "Session key has been revoked"
    /\ ret.value = << >>

\* The creation password is refused inside the window of a revoked session.
C2_Witness ==
  /\ KeyCall
  /\ <<ret.args.wallet, ret.args.id>> \in revokedOk
  /\ ret.args.password = PasswordGood
  /\ Addressed[1].info.validAfter <= now
  /\ now < Addressed[1].info.validUntil

\* C3: every entry of listSessions(w) has isActive equal to
\* validAfter <= now < validUntil and not isRevoked, at the time of the call.
C3_ListActivityRecomputed ==
  ListCall =>
    \A i \in DOMAIN ret.value :
      ret.value[i].isActive <=>
        (/\ ret.value[i].validAfter <= now
         /\ now < ret.value[i].validUntil
         /\ ~ret.value[i].isRevoked)

\* A listed entry whose reported activity differs from the persisted flag.
C3_Witness ==
  /\ ListCall
  /\ \E i \in DOMAIN ret.value :
       LET stored == Load(Collection(ret.args.wallet), ret.value[i].id)
       IN  stored # << >> /\ stored[1].info.isActive # ret.value[i].isActive

\* C4: the ids listSessions(w) returns are exactly the ids returned by the
\* successful createSessionKey(w, ...) calls, each once.
C4_ListIsCreatedSet ==
  ListCall =>
    /\ {ret.value[i].id : i \in DOMAIN ret.value} =
         {c[2] : c \in {d \in createdOk : d[1] = ret.args.wallet}}
    /\ \A i, j \in DOMAIN ret.value : ret.value[i].id = ret.value[j].id => i = j

\* A non-empty list for one wallet while another wallet has a session too.
C4_Witness ==
  /\ ListCall
  /\ ret.value # << >>
  /\ \E c \in createdOk : c[1] # ret.args.wallet

\* C5: getSessionPrivateKey returns the key only when
\* validAfter <= now < validUntil at the time of the call.
C5_KeyOnlyInsideWindow ==
  (KeyCall /\ ret.status = "ok") =>
    /\ Addressed[1].info.validAfter <= now
    /\ now < Addressed[1].info.validUntil

\* C6: for a stored, not revoked session with validUntil <= now,
\* getSessionPrivateKey fails with the expired error for every password,
\* without calling decryptKey, and returns no key.
C6_ExpiredKeyRefused ==
  (/\ KeyCall
   /\ Addressed # << >>
   /\ ~Addressed[1].info.isRevoked
   /\ Addressed[1].info.validUntil <= now) =>
    /\ ret.status = "error"
    /\ ret.error.name = "SessionKeyError"
    /\ ret.error.text = "Session key has expired"
    /\ "decryptKey" \notin ret.calls
    /\ ret.value = << >>

\* The creation password is refused at the very second the window ends.
C6_Witness ==
  /\ KeyCall
  /\ Addressed # << >>
  /\ ~Addressed[1].info.isRevoked
  /\ Addressed[1].info.validUntil = now
  /\ ret.args.password = PasswordGood

\* C7: the value-cap scenario starts with a successful createSessionKey:
\* label "bot", a window starting now, permissions.maxValuePerTransaction = 0n;
\* the call returns a descriptor and the record is stored.
C7_ValueCapScenario ==
  (/\ CreateCall
   /\ ret.args.config.label = LabelBot
   /\ ret.args.config.validAfter = now
   /\ ret.args.config.validUntil > now
   /\ ret.args.config.permissions = PermsZeroCap
   /\ ret.args.password = PasswordGood) =>
    /\ ret.status = "ok"
    /\ StoredSessions(ret.args.wallet) # {}

\* C8: createSessionKey with validUntil <= validAfter fails with the
\* validation error and persists nothing: the files, the directories and the
\* stored sessions of every wallet are the same before and after.
C8_EmptyWindowRejected ==
  (CreateCall /\ ret.args.config.validUntil <= ret.args.config.validAfter) =>
    /\ ret.status = "error"
    /\ ret.error.code = "INVALID_SESSION_TIMES"
    /\ files = ret.before.files
    /\ dirs = ret.before.dirs
    /\ \A w \in Wallets : StoredSessions(w) = SessionsIn(ret.before, w)

\* A window with validUntil = validAfter, otherwise acceptable, was rejected.
C8_Witness ==
  /\ CreateCall
  /\ ret.args.config.validUntil = ret.args.config.validAfter
  /\ ret.args.config.validUntil > now
  /\ ret.args.config.label = LabelBot
  /\ ret.args.password = PasswordGood
  /\ ret.status = "error"

\* C9: createSessionKey with validUntil <= now fails with the validation
\* error and persists nothing.
C9_ExpiredWindowRejected ==
  (CreateCall /\ ret.args.config.validUntil <= now) =>
    /\ ret.status = "error"
    /\ ret.error.code = "INVALID_SESSION_TIMES"
    /\ files = ret.before.files
    /\ dirs = ret.before.dirs
    /\ \A w \in Wallets : StoredSessions(w) = SessionsIn(ret.before, w)

\* A well-formed window that ends exactly now was rejected.
C9_Witness ==
  /\ CreateCall
  /\ ret.args.config.validUntil = now
  /\ ret.args.config.validAfter < ret.args.config.validUntil
  /\ ret.args.config.label = LabelBot
  /\ ret.args.password = PasswordGood
  /\ ret.status = "error"
  /\ ret.error.text = "Session validUntil must be in the future."

\* C10 as stated: the error for an absent, a revoked and an expired session
\* carry pairwise different codes.
C10_DistinctCodes ==
  ((KeyCall \/ RevokeCall) /\ ret.status = "error"
     /\ ret.error.name = "SessionKeyError") =>
    \A other \in {SessionNotFound(ret.args.id), SessionRevoked, SessionExpired} :
      other.text # ret.error.text => other.code # ret.error.code

\* C10 amended: the three state errors carry the one code SESSION_KEY_ERROR
\* and are told apart by their message, one message per condition.
C10_DistinctMessages ==
  /\ KeyCall =>
       /\ Addressed = << >> =>
            /\ ret.error.code = "SESSION_KEY_ERROR"
            /\ ret.error.text = "Session key not found: "
       /\ (Addressed # << >> /\ Addressed[1].info.isRevoked) =>
            /\ ret.error.code = "SESSION_KEY_ERROR"
            /\ ret.error.text = "Session key has been revoked"
       /\ (/\ Addressed # << >>
           /\ ~Addressed[1].info.isRevoked
           /\ Addressed[1].info.validUntil <= now) =>
            /\ ret.error.code = "SESSION_KEY_ERROR"
            /\ ret.error.text = "Session key has expired"
  /\ (RevokeCall /\ ret.status = "error") =>
       /\ Addressed = << >>
       /\ ret.error.code = "SESSION_KEY_ERROR"
       /\ ret.error.text = "Session key not found: "

\* getSessionPrivateKey on an absent id, while a revoked and an expired
\* session exist in the store.
C10_Witness ==
  /\ KeyCall
  /\ Addressed = << >>
  /\ ret.error.arg = ret.args.id
  /\ \E w \in Wallets : \E info \in StoredSessions(w) : info.isRevoked
  /\ \E w \in Wallets : \E info \in StoredSessions(w) :
       ~info.isRevoked /\ info.validUntil <= now

\* C11: revokeSession on an already revoked session returns true without an
\* error, and the stored record after the call equals the record before it.
C11_RevokeIdempotent ==
  (/\ RevokeCall
   /\ AddressedBefore # << >>
   /\ AddressedBefore[1].info.isRevoked) =>
    /\ ret.status = "ok"
    /\ ret.error = NoError
    /\ ret.value = <<TRUE>>
    /\ Addressed = AddressedBefore
    /\ files = ret.before.files

\* A second revokeSession of a session, inside its validity window.
C11_Witness ==
  /\ RevokeCall
  /\ AddressedBefore # << >>
  /\ AddressedBefore[1].info.isRevoked
  /\ AddressedBefore[1].info.validAfter <= now
  /\ now < AddressedBefore[1].info.validUntil
  /\ ret.status = "ok"

\* C12: createSessionKey rejects a permission object whose allowedTargets
\* holds an entry that is not an address or whose maxTransactions is
\* negative, and persists no session record.
C12_ShapeValidated ==
  (CreateCall /\ ret.args.config.permissions \in ShapeInputs) =>
    /\ ret.status = "error"
    /\ StoreUntouched

\* C13: after a successful createSessionKey with validAfter = now and a later
\* validUntil, the returned descriptor has isActive = TRUE and
\* isRevoked = FALSE, and so has its entry in a listSessions at that time.
C13_FreshSessionActive ==
  /\ (CreateCall /\ ret.status = "ok" /\ ret.args.config.validAfter = now) =>
       /\ ret.value[1].info.isActive
       /\ ~ret.value[1].info.isRevoked
  /\ ListCall =>
       \A i \in DOMAIN ret.value :
         (/\ ret.value[i].createdAt = now
          /\ ret.value[i].validAfter = now
          /\ <<ret.args.wallet, ret.value[i].id>> \notin revokedOk) =>
           /\ ret.value[i].isActive
           /\ ~ret.value[i].isRevoked

\* A session created after the clock has advanced, with validAfter = now,
\* is listed in that same second.
C13_Witness ==
  /\ ListCall
  /\ now > 0
  /\ \E i \in DOMAIN ret.value :
       /\ ret.value[i].createdAt = now
       /\ ret.value[i].validAfter = now
       /\ ret.value[i].isActive
       /\ <<ret.args.wallet, ret.value[i].id>> \in createdOk

\* C14: createSessionKey with an empty or whitespace-only label fails with an
\* input-validation error before a key is generated and persists nothing,
\* whatever the validity window and the password are.
C14_BlankLabelRejected ==
  (CreateCall /\ ret.args.config.label \in {LabelEmpty, LabelBlank}) =>
    /\ ret.status = "error"
    /\ \/ ret.error.code = "INVALID_SESSION_TIMES"
       \/ ret.error.text = "Session key label is required"
    /\ ret.calls = {"validateSessionTimes"}
    /\ ret.value = << >>
    /\ StoreUntouched

\* A whitespace-only label with a valid window is refused with the label
\* error, also under a password encryptKey would refuse.
C14_Witness ==
  /\ CreateCall
  /\ ret.args.config.label = LabelBlank
  /\ ret.args.config.validAfter <= now
  /\ now < ret.args.config.validUntil
  /\ ret.args.password = PasswordShort
  /\ ret.error.text = "Session key label is required"

\* C15: revokeSession(w, id) for an id with no record under w fails with the
\* not-found error and leaves the store unchanged: no record is created and
\* the sessions of every wallet are the same before and after.
C15_RevokeAbsentRejected ==
  (RevokeCall /\ AddressedBefore = << >>) =>
    /\ ret.status = "error"
    /\ ret.error = SessionKeyError("Session key not found: ", ret.args.id)
    /\ ret.value = << >>
    /\ Addressed = << >>
    /\ StoreUntouched

\* revokeSession of an id that exists, but under the other wallet.
C15_Witness ==
  /\ RevokeCall
  /\ AddressedBefore = << >>
  /\ ret.status = "error"
  /\ \E w \in Wallets : LoadFrom(ret.before, Collection(w), ret.args.id) # << >>

\* C16: decryptKey(encryptKey(s, p), p) returns s for every 32-byte private
\* key s and every password p of at least 8 characters: the hex text of the
\* same 32 bytes (hex digits come back in lower case), s itself when s is
\* written in lower case.
C16_SealOpenRoundTrip ==
  DecryptCall =>
    \A i \in SealsOf(ret.args.encryptedData) :
      (/\ sealed[i].password = ret.args.password
       /\ Len(sealed[i].password) >= 8
       /\ Len(sealed[i].privateKey) = 66) =>
        /\ ret.status = "ok"
        /\ ret.value = <<ToLowerCase(sealed[i].privateKey)>>
        /\ FromHex(Slice2(ret.value[1])) = FromHex(Slice2(sealed[i].privateKey))
        /\ Len(FromHex(Slice2(ret.value[1]))) = 32
        /\ sealed[i].privateKey = TestKey => ret.value = <<TestKey>>

\* The key of the cipher tests, sealed second, is opened with its password.
C16_Witness ==
  /\ DecryptCall
  /\ ret.status = "ok"
  /\ ret.value = <<TestKey>>
  /\ \E i \in SealsOf(ret.args.encryptedData) :
       i = 2 /\ sealed[i].password = ret.args.password

\* C17: decryptKey of an envelope with a password other than the one it was
\* sealed with fails with the decryption error and returns no key.
C17_WrongPasswordRefused ==
  (/\ DecryptCall
   /\ ret.args.encryptedData \in SealedEnvelopes
   /\ \A i \in SealsOf(ret.args.encryptedData) :
        sealed[i].password # ret.args.password) =>
    /\ ret.status = "error"
    /\ ret.error.name = "KeyManagementError"
    /\ ret.error.text = "Failed to decrypt private key. Wrong password?"
    /\ ret.value = << >>

\* An envelope is refused under a password that opens another envelope of
\* the same private key.
C17_Witness ==
  /\ DecryptCall
  /\ ret.status = "error"
  /\ \E i, j \in DOMAIN sealed :
       /\ sealed[i].envelope = ret.args.encryptedData
       /\ sealed[i].password # ret.args.password
       /\ sealed[j].password = ret.args.password
       /\ sealed[j].privateKey = sealed[i].privateKey

\* C18: every failure of decryptKey is the same error, in type, code and
\* message, whether the password is wrong or the ciphertext, the IV, the
\* salt, the tag or the KDF parameters were altered; an altered envelope
\* always fails.
C18_OneDecryptionError ==
  DecryptCall =>
    /\ ret.status = "error" =>
         ret.error = [name |-> "KeyManagementError", code |-> "KEY_MANAGEMENT_ERROR",
                      text |-> "Failed to decrypt private key. Wrong password?",
                      arg |-> << >>]
    /\ ret.args.encryptedData \notin SealedEnvelopes => ret.status = "error"

\* An envelope with an altered tag is refused under its own password.
C18_Witness ==
  /\ DecryptCall
  /\ ret.status = "error"
  /\ \E i \in DOMAIN sealed :
       /\ ret.args.encryptedData = Corrupt(sealed[i].envelope, "authTag")
       /\ ret.args.password = sealed[i].password

\* C19: encryptKey with a password of fewer than 8 characters, or with a
\* private key that is not 32 bytes long, fails before a salt or an IV is
\* drawn and before key derivation or encryption runs.
C19_SealValidatesInputs ==
  (/\ ret.op = "encryptKey"
   /\ \/ Len(ret.args.password) < 8
      \/ Len(ret.args.privateKey) # 66) =>
    /\ ret.status = "error"
    /\ ret.calls = {}

\* C20: no two encryptKey calls return envelopes with the same salt, the
\* same IV or the same ciphertext, also for the same key and password.
C20_FreshSaltAndIv ==
  \A i, j \in DOMAIN sealed :
    i # j =>
      /\ sealed[i].envelope.salt # sealed[j].envelope.salt
      /\ sealed[i].envelope.iv # sealed[j].envelope.iv
      /\ sealed[i].envelope.ciphertext # sealed[j].envelope.ciphertext

\* Two encryptKey calls on the same private key and password have returned.
C20_Witness ==
  \E i, j \in DOMAIN sealed :
    /\ i # j
    /\ sealed[i].privateKey = sealed[j].privateKey
    /\ sealed[i].password = sealed[j].password

\* C21: list(collection), when no file operation fails, returns exactly the
\* ids saved into the collection and not deleted since, each unchanged and
\* once, and the empty list for a collection that was never written.
C21_ListExact ==
  (ret.op = "list" /\ ret.args.fault = "none") =>
    /\ ret.status = "ok"
    /\ LET savedIds == {k[2] : k \in {q \in DOMAIN saved : q[1] = ret.args.collection}}
       IN  /\ {ret.value[i] : i \in DOMAIN ret.value} = savedIds
           /\ Len(ret.value) = Cardinality(savedIds)
    /\ ret.args.collection \notin dirs => ret.value = << >>

\* C22: load(c, id), when no file operation fails, returns the data of the
\* last save(c, id, d) that returned (d without the properties whose value is
\* undefined, which is equal to d under the tests' toEqual), also when that
\* save overwrote an earlier one; for an id never saved, or deleted since, it
\* returns null and raises no error.
C22_SaveLoadRoundTrip ==
  (ret.op = "load" /\ ret.args.fault = "none") =>
    /\ ret.status = "ok"
    /\ IF <<ret.args.collection, ret.args.id>> \in DOMAIN saved
         THEN ret.value = <<JsonObject(saved[<<ret.args.collection, ret.args.id>>].data)>>
         ELSE ret.value = << >>

\* A load returns the data of a save that overwrote an earlier save.
C22_Witness ==
  /\ ret.op = "load"
  /\ <<ret.args.collection, ret.args.id>> \in DOMAIN saved
  /\ saved[<<ret.args.collection, ret.args.id>>].overwrote
  /\ saved[<<ret.args.collection, ret.args.id>>].data = DataA
  /\ ret.value = <<DataA>>

\* C23: delete(c, id) returns true exactly when the record existed and was
\* removed, and then load(c, id) is null and list(c) does not contain id; it
\* returns false when no record existed; every other record is unchanged.
C23_DeleteRemoves ==
  ret.op = "delete" =>
    LET path == FilePath(ret.args.collection, ret.args.id)
    IN  /\ ret.status = "ok"
        /\ ret.value = <<TRUE>> <=>
             (existsSync(ret.before, path) /\ ~existsSync(Store, path))
        /\ ret.value = <<TRUE>> =>
             /\ Load(ret.args.collection, ret.args.id) = << >>
             /\ ret.args.id \notin List(ret.args.collection)
        /\ ~existsSync(ret.before, path) => ret.value = <<FALSE>>
        /\ \A p \in (DOMAIN files \cup DOMAIN ret.before.files) \ {path} :
             /\ p \in DOMAIN files
             /\ p \in DOMAIN ret.before.files
             /\ files[p] = ret.before.files[p]

\* C24: a FileStorage call during which a file operation failed returns an
\* error, never a normal value.
C24_FaultsSurface ==
  (ret.op \in {"save", "load", "list", "delete"} /\ ret.args.fault # "none") => ret.status = "error"

\* C25: no createWallet, importWallet, getWalletInfo, getBalance or
\* sendTransaction call changes or removes a wallet record that was stored
\* when the call began.
C25_WalletRecordImmutable ==
  ret.op \in {"createWallet", "importWallet", "getWalletInfo", "getBalance", "sendTransaction"} =>
    \A path \in DOMAIN ret.before.files :
      path[1] = WALLET_COLLECTION =>
        /\ path \in DOMAIN files
        /\ files[path] = ret.before.files[path]

\* C26: encryptPrivateKey refuses a key that is not 0x followed by 64 hex
\* digits with INVALID_PRIVATE_KEY, and otherwise a password of fewer than 8
\* characters with INVALID_PASSWORD, in both cases before encryptKey is
\* called; decryptPrivateKey returns exactly what decryptKey returns or throws.
C26_KeyManagerValidates ==
  /\ ret.op = "encryptPrivateKey" =>
       LET key == ret.args.privateKey
           wellFormed ==
             /\ Len(key) = 66
             /\ SubSeq(key, 1, 2) = <<"0", "x">>
             /\ \A i \in 3..66 : \E j \in DOMAIN HexDigits : ToLowerChar(key[i]) = HexDigits[j]
       IN  /\ ~wellFormed =>
                /\ ret.status = "error"
                /\ ret.error.code = "INVALID_PRIVATE_KEY"
                /\ "encryptKey" \notin ret.calls
           /\ (wellFormed /\ Len(ret.args.password) < 8) =>
                /\ ret.status = "error"
                /\ ret.error.code = "INVALID_PASSWORD"
                /\ "encryptKey" \notin ret.calls
           /\ (wellFormed /\ Len(ret.args.password) >= 8) => ret.status = "ok"
  /\ ret.op = "decryptPrivateKey" =>
       /\ ret.error = decryptKey(ret.args.encryptedData, ret.args.password).error
       /\ ret.value = decryptKey(ret.args.encryptedData, ret.args.password).value
       /\ ret.status = "error" =>
            /\ ret.error.name = "KeyManagementError"
            /\ ret.error.text = "Failed to decrypt private key. Wrong password?"

\* A key of 66 characters with a non-hex digit is refused under a good password.
C26_Witness ==
  /\ ret.op = "encryptPrivateKey"
  /\ ret.args.privateKey = NonHexKey
  /\ ret.args.password = PasswordGood
  /\ ret.error.code = "INVALID_PRIVATE_KEY"

\* C27: with a supported network, initialize succeeds exactly for the
\* providers 'alchemy', 'zerodev' and 'ambire', then holds a provider of the
\* name asked for, and fails with InvalidProviderError for any other name.
C27_ThreeProviders ==
  (ret.op = "initialize" /\ ret.args.config.network \in SUPPORTED_CHAINS) =>
    /\ ret.status = "ok" <=> ret.args.config.provider \in {"alchemy", "zerodev", "ambire"}
    /\ ret.status = "ok" =>
         /\ provider # << >>
         /\ provider[1].name = ret.args.config.provider
    /\ ret.args.config.provider \notin {"alchemy", "zerodev", "ambire"} =>
         ret.error.name = "InvalidProviderError"

\* C28: createWallet, importWallet, getBalance and sendTransaction, called
\* while no initialize call has returned normally, fail with NOT_INITIALIZED,
\* leave the files as they were and call no provider operation.
C28_InitializeFirst ==
  (ret.op \in {"createWallet", "importWallet", "getBalance", "sendTransaction"} /\ ~initializedOk) =>
    /\ ret.status = "error"
    /\ ret.error.code = "NOT_INITIALIZED"
    /\ files = ret.before.files
    /\ dirs = ret.before.dirs
    /\ ret.calls \cap
         {"provider.initialize", "provider.getSmartAccountAddress",
          "provider.isAccountDeployed", "provider.getBalance",
          "provider.estimateUserOperationGas", "provider.sendUserOperation"} = {}
    /\ "save" \notin ret.calls

\* importWallet of a well-formed key under a good password is refused on a
\* wallet whose only initialize calls have failed.
C28_Witness ==
  /\ ret.op = "importWallet"
  /\ ~initializedOk
  /\ ret.args.privateKey = TestKey
  /\ ret.args.password = PasswordGood
  /\ ret.error.code = "NOT_INITIALIZED"

\* C29: the isActive flag of the record getSession(w, id) returns equals
\* validAfter <= now < validUntil and not isRevoked at the time of the call.
C29_GetSessionActivity ==
  (ret.op = "getSession" /\ ret.value # << >>) =>
    (ret.value[1].info.isActive <=>
       (/\ ret.value[1].info.validAfter <= now
        /\ now < ret.value[1].info.validUntil
        /\ ~ret.value[1].info.isRevoked))

\* C30: getSessionPrivateKey tests absent, revoked, expired, decrypt in this
\* order: a session both revoked and past validUntil gets the revoked error
\* under every password, the expired error is raised only for a session that
\* is not revoked, and the decryption error only for a session that is
\* neither revoked nor expired.
C30_KeyCheckOrder ==
  KeyCall =>
    /\ Addressed = << >> => ret.error.text = "Session key not found: "
    /\ (/\ Addressed # << >>
        /\ Addressed[1].info.isRevoked
        /\ Addressed[1].info.validUntil <= now) =>
         /\ ret.error.text = "Session key has been revoked"
         /\ "decryptKey" \notin ret.calls
    /\ ret.error.text = "Session key has expired" =>
         /\ Addressed # << >>
         /\ ~Addressed[1].info.isRevoked
    /\ "decryptKey" \in ret.calls =>
         /\ Addressed # << >>
         /\ ~Addressed[1].info.isRevoked
         /\ now < Addressed[1].info.validUntil

\* A revoked session past its validUntil is asked for under a wrong password.
C30_Witness ==
  /\ KeyCall
  /\ Addressed # << >>
  /\ Addressed[1].info.isRevoked
  /\ Addressed[1].info.validUntil < now
  /\ ret.args.password = PasswordOther
  /\ ret.error.text = "Session key has been revoked"

\* C33: createSessionKey with a password shorter than 8 characters fails, and
\* the files and directories of the store are the ones the call started from:
\* no session record is persisted.
C33_ShortPasswordWritesNothing ==
  (CreateCall /\ Len(ret.args.password) < MinPasswordLength) =>
    /\ ret.status = "error"
    /\ ret.value = << >>
    /\ files = ret.before.files
    /\ dirs = ret.before.dirs
    /\ "randomUUID" \in ret.calls =>
         \A w \in Wallets : Load(Collection(w), UUID(uuidCount)) = << >>

\* A createSessionKey with a valid window and label that got as far as
\* encryptKey and was rejected there for its short password.
C33_Witness ==
  /\ CreateCall
  /\ ret.args.password = PasswordShort
  /\ "encryptKey" \in ret.calls
  /\ ret.error = KeyManagementError("Password must be at least 8 characters")
  /\ createdOk # {}

\* C34: a successful revokeSession leaves the addressed record as it was
\* stored, but for isRevoked = TRUE and isActive = FALSE; the record still has
\* the id, the session key address and the encrypted key of its creation;
\* every other file of the store is unchanged.
C34_OnlyRevocationMutates ==
  (RevokeCall /\ ret.status = "ok") =>
    /\ AddressedBefore # << >>
    /\ Addressed =
         <<[AddressedBefore[1] EXCEPT !.info.isRevoked = TRUE, !.info.isActive = FALSE]>>
    /\ \E n \in 1..uuidCount :
         /\ Addressed[1].info.id = UUID(n)
         /\ Addressed[1].info.sessionKeyAddress = privateKeyToAccount(PrivateKey(n)).address
         /\ JsonParseEnvelope(Addressed[1].encryptedPrivateKey).salt = Salt(n)
         /\ JsonParseEnvelope(Addressed[1].encryptedPrivateKey).ciphertext.bytes
              = FromHex(Slice2(PrivateKey(n)))
    /\ DOMAIN files = DOMAIN ret.before.files
    /\ \A p \in DOMAIN files :
         p # FilePath(Collection(ret.args.wallet), ret.args.id) =>
           files[p] = ret.before.files[p]

\* The first revocation of a labelled session, another session being stored.
C34_Witness ==
  /\ RevokeCall
  /\ ret.status = "ok"
  /\ ~AddressedBefore[1].info.isRevoked
  /\ AddressedBefore[1].info.label = LabelBot
  /\ Cardinality(DOMAIN files) = 2

\* C35: a successful createSessionKey returns an id under which no wallet had
\* a record; no id was created for two wallets; listSessions returns as many
\* entries as createSessionKey calls succeeded for the wallet; and a session
\* whose revocation succeeded is stored revoked ever after.
C35_FreshIds ==
  /\ (CreateCall /\ ret.status = "ok") =>
       \A w \in Wallets :
         LoadFrom(ret.before, Collection(w), ret.value[1].info.id) = << >>
  /\ \A c, e \in createdOk : c[2] = e[2] => c = e
  /\ ListCall =>
       Len(ret.value) = Cardinality({c \in createdOk : c[1] = ret.args.wallet})
  /\ \A r \in revokedOk :
       /\ Load(Collection(r[1]), r[2]) # << >>
       /\ Load(Collection(r[1]), r[2])[1].info.isRevoked

\* A second successful createSessionKey, made after a revocation.
C35_Witness ==
  /\ CreateCall
  /\ ret.status = "ok"
  /\ Cardinality(createdOk) = 2
  /\ revokedOk # {}

C37_ReadsLeaveStore ==
  (ret.op \in {"listSessions", "getSession", "getSessionPrivateKey"}) =>
    /\ files = ret.before.files
    /\ dirs = ret.before.dirs

\* A getSessionPrivateKey that failed to decrypt the key of a usable session.
C37_Witness ==
  /\ KeyCall
  /\ ret.status = "error"
  /\ "decryptKey" \in ret.calls
  /\ Addressed # << >>
  /\ ~Addressed[1].info.isRevoked

\* C31: every session record in the store has validUntil > validAfter, after
\* any sequence of createSessionKey and revokeSession calls.
C31_StoredWindowOrdered ==
  \A w \in Wallets : \A info \in StoredSessions(w) :
    Lt(info.validAfter, info.validUntil)

\* C32: a session created under one spelling of a wallet address is found
\* under every spelling that differs from it in letter case only:
\* listSessions returns exactly the ids created for the address, getSession
\* returns the record, getSessionPrivateKey does not fail with "not found"
\* and returns the key under the right password while the session is usable,
\* and revokeSession succeeds.
C32_CaseNormalized ==
  LET created(v) == {c[2] : c \in {e \in createdOk : ToLowerCase(e[1]) = ToLowerCase(v)}}
  IN  /\ ListCall =>
           {ret.value[i].id : i \in DOMAIN ret.value} = created(ret.args.wallet)
      /\ (ret.op \in {"getSession", "getSessionPrivateKey", "revokeSession"}
            /\ ret.args.id \in created(ret.args.wallet)) =>
           /\ AddressedBefore # << >>
           /\ AddressedBefore[1].info.id = ret.args.id
           /\ ret.op = "getSession" => ret.value = AddressedBefore
           /\ ret.op = "revokeSession" => ret.status = "ok" /\ Addressed[1].info.isRevoked
           /\ ret.op = "getSessionPrivateKey" =>
                /\ ret.error # SessionNotFound(ret.args.id)
                /\ (/\ ret.args.password = PasswordGood
                    /\ ~AddressedBefore[1].info.isRevoked
                    /\ now < AddressedBefore[1].info.validUntil) => ret.status = "ok"

\* A session created under the mixed-case spelling is revoked under the
\* lower-case one, and a session created under the lower-case spelling gives
\* its key under the mixed-case one.
C32_Witness ==
  \/ /\ RevokeCall
     /\ ret.status = "ok"
     /\ ret.args.wallet = ToLowerCase(WalletA)
     /\ <<WalletA, ret.args.id>> \in createdOk
  \/ /\ KeyCall
     /\ ret.status = "ok"
     /\ ret.args.wallet = WalletA
     /\ <<ToLowerCase(WalletA), ret.args.id>> \in createdOk

\* C38: a call made with a wallet address returns no session created for an
\* address that differs from it other than by case, and revokes none,
\* whatever session id it is given.
C38_WalletsIsolated ==
  LET foreign(v) == {c \in createdOk : ToLowerCase(c[1]) # ToLowerCase(v)}
      keyOf(id) == PrivateKey(CHOOSE n \in 1..MaxSessions : UUID(n) = id)
  IN  /\ ListCall =>
           \A i \in DOMAIN ret.value :
             \A c \in foreign(ret.args.wallet) : ret.value[i].id # c[2]
      /\ (ret.op = "getSession" /\ ret.value # << >>) =>
           \A c \in foreign(ret.args.wallet) : ret.value[1].info.id # c[2]
      /\ (KeyCall /\ ret.status = "ok") =>
           \A c \in foreign(ret.args.wallet) : ret.value # <<keyOf(c[2])>>
      /\ RevokeCall =>
           \A c \in foreign(ret.args.wallet) :
             LoadFrom(ret.before, Collection(c[1]), c[2]) = Load(Collection(c[1]), c[2])

\* C39: when processes interleave the loads and saves of revokeSession and
\* createSessionKey, every session some revokeSession has saved as revoked
\* has a file in the store, and that file says isRevoked = TRUE, whatever
\* writes completed since.
C39_RevocationNotLost ==
  \A r \in revokedOk :
    LET path == FilePath(Collection(r[1]), r[2])
    IN  /\ path \in DOMAIN files
        /\ JsonParse(files[path]).info.isRevoked

\* A revokeSession has completed for a session while another process still
\* holds the copy it loaded before that, not revoked, and is about to save it.
C39_Witness ==
  \E p \in 1..MaxProcs :
    /\ inflight[p].pc = "revokeSession"
    /\ ~inflight[p].data[1].info.isRevoked
    /\ <<inflight[p].wallet, inflight[p].id>> \in revokedOk
    /\ \E q \in 1..MaxProcs : inflight[q].pc = "createSessionKey"

\* C40: under a clock that does not go back, every listSessions entry of a
\* session that is not revoked is pending (inactive, now < validAfter),
\* active, or expired (inactive, now >= validUntil); a session an earlier
\* listSessions has shown expired is shown expired, and a session an earlier
\* listSessions has shown active is not shown pending.
C40_LifecycleMonotone ==
  ListCall =>
    \A i \in DOMAIN ret.value :
      ~ret.value[i].isRevoked =>
        LET id == ret.value[i].id
            phase == Phase(ret.value[i], now)
        IN  /\ phase \in {"pending", "active", "expired"}
            /\ <<id, "expired">> \in listed => phase = "expired"
            /\ <<id, "active">> \in listed => phase # "pending"

\* A session that earlier listSessions calls have shown pending and then
\* active is listed after its window has closed.
C40_Witness ==
  /\ ListCall
  /\ \E i \in DOMAIN ret.value :
       /\ <<ret.value[i].id, "pending">> \in listed
       /\ <<ret.value[i].id, "active">> \in listed
       /\ ~ret.value[i].isRevoked
       /\ Phase(ret.value[i], now) = "expired"

====
